---------------------------- MODULE Spec2Model ----------------------------
(***************************************************************************)
(* Session core of poke-battles: the lobby domain (game.Lobby), the lobby  *)
(* registry (services.lobbyService), the connection (websocket.Connection) *)
(* and the hub and handler (websocket.Hub, websocket.Handler).             *)
(*                                                                         *)
(* Every goroutine that calls into the registry is a caller with a program *)
(* counter; a step of a caller is one critical section of the code (one    *)
(* acquisition of lobbyService.mu or of Lobby.mu).  Two critical sections  *)
(* are merged into one step only where no other goroutine can observe the  *)
(* difference (the second touches state that the held lock protects).      *)
(***************************************************************************)
EXTENDS Integers, Sequences, FiniteSets, TLC

(***************************************************************************)
(* Bounds of the model.                                                    *)
(***************************************************************************)
\* Number of goroutines calling the registry concurrently.
NumCallers == 2
\* Number of game.Lobby objects NewLobby may allocate in one behaviour.
MaxLobbies == 2

\* Number of registry calls started in one behaviour.
MaxCalls == 5

\* Number of callers that join one lobby concurrently.
NumJoiners == 3
\* Number of goroutines that send to one connection concurrently.
NumSenders == 2
\* Number of messages sent to one connection in one behaviour.
MaxSeq == 4
\* Capacity of Connection.send.  The program's is 256; the model keeps the
\* channel small so that a full buffer is reached.
sendBufferSize == 2

\* Number of WebSocket connections the server can hold.
NumConns == 3
\* Number of connections that clients open while the session layer is
\* explored from a hub without connections.
NumClients == 2
\* Number of client frames the server handles in one behaviour.
MaxMsgs == 3
\* The same where every message type and envelope is explored.
MaxFrames == 2
\* Number of indices rand.Int may return that are explored.
NumDraws == 3

\* Lobby.MaxPlayers, set by NewLobby.
MaxPlayers == 2

Callers == 1..NumCallers
LobbyRefs == 1..MaxLobbies
\* The nil *game.Lobby, and the absent map entry.
NoLobby == 0
PlayerIDs == {"h", "p", "q"}
\* Room codes GenerateRoomCode may draw.
Codes == {"AAAAAA"}

\* game.LobbyState
LobbyStateWaiting == "waiting"
LobbyStateReady == "ready"
LobbyStateActive == "active"

\* Domain and service errors; NoErr is the nil error.
NoErr == "nil"
ErrLobbyFull == "lobby is full"
ErrPlayerAlreadyJoined == "player already in lobby"
ErrPlayerNotFound == "player not found in lobby"
ErrInvalidStateForJoin == "cannot join lobby in current state"
ErrInvalidStateForStart == "cannot start lobby in current state"
ErrNotEnoughPlayers == "not enough players to start"
ErrLobbyNotFound == "lobby not found"
ErrNotHost == "only host can start the game"

VARIABLES
    lobbies,    \* lobbyService.lobbies: code -> *game.Lobby (NoLobby: no entry)
    lobby,      \* the heap of game.Lobby objects, by reference
    nextRef,    \* the next reference NewLobby allocates
    regLock,    \* the caller holding lobbyService.mu for writing, or 0
    call,       \* per caller: the call in progress and its locals
    ncalls,     \* calls started so far (bounds the behaviour)
    outboundSeq,\* Connection.outboundSeq of the connection senders write to
    send,       \* Connection.send: the buffered channel, oldest message first
    delivered,  \* what WritePump has written to the socket, in order
    sender,     \* per sending goroutine: its place in SendMessage and its seq
    conn,       \* per connection: the fields of websocket.Connection
    inbox,      \* per connection: the messages enqueued on Connection.send
    hubConnections, \* Hub.connections
    hubLobbies, \* Hub.lobbies: code -> set of connections
    hubPlayers, \* Hub.players: player ID -> connection
    hubpc,      \* Hub.Run: what the hub's goroutine is doing, and its locals
    readyState, \* Handler.readyState: code -> player ID -> bool
    rp,         \* per connection: its read pump and the handler it runs
    ntokens,    \* per connection: reconnect tokens generated for it so far
    nmsgs,      \* client frames handled so far (bounds the behaviour)
    unreadied,  \* players whose disconnect the hub has processed and who
                \* have not sent set_ready{ready: true} since
    now,        \* time.Now(), in minutes since the server started
    onDisconnect, \* Hub.onDisconnect: the callback, or nil
    roomCode,   \* GenerateRoomCode: the bytes of code written so far
    ncallbacks  \* per connection: how often the hub invoked the disconnect
                \* callback for it

regVars == <<lobbies, lobby, nextRef, regLock, call, ncalls>>
sendVars == <<outboundSeq, send, delivered, sender>>
\* What the registry's and the lobby's steps leave alone, and the send path's.
hubVars == <<conn, inbox, hubConnections, hubLobbies, hubPlayers, hubpc,
             readyState, rp, ntokens, nmsgs, unreadied>>
notReg == <<sendVars, hubVars, now, onDisconnect, roomCode, ncallbacks>>
notSend == <<regVars, hubVars, now, onDisconnect, roomCode, ncallbacks>>
notHub == <<regVars, sendVars, now, onDisconnect, roomCode, ncallbacks>>
vars == <<lobbies, lobby, nextRef, regLock, call, ncalls,
          outboundSeq, send, delivered, sender,
          conn, inbox, hubConnections, hubLobbies, hubPlayers, hubpc,
          readyState, rp, ntokens, nmsgs, unreadied, now, onDisconnect, roomCode, ncallbacks>>

(***************************************************************************)
(* Lobby domain (game.Lobby).  Each operator is one critical section of    *)
(* Lobby.mu and returns the error and the lobby as the call leaves it.     *)
(***************************************************************************)
\* A lobby object that NewLobby has not allocated yet.
FreeLobby == [Code |-> "", State |-> LobbyStateWaiting, Players |-> <<>>, HostID |-> ""]

NewLobby(code, hostID) ==
    [Code |-> code, State |-> LobbyStateWaiting, Players |-> <<hostID>>, HostID |-> hostID]

HasPlayer(l, id) == \E i \in 1..Len(l.Players) : l.Players[i] = id

PlayerCount(l) == Len(l.Players)

IsHost(l, id) == l.HostID = id

\* AddPlayer with its state check and its capacity check left out.
AddPlayer_Unguarded(l, id) ==
    IF HasPlayer(l, id)
    THEN [err |-> ErrPlayerAlreadyJoined, l |-> l]
    ELSE LET ps == Append(l.Players, id)
         IN  [err |-> NoErr,
              l |-> [l EXCEPT !.Players = ps,
                              !.State = IF Len(ps) = MaxPlayers
                                        THEN LobbyStateReady ELSE @]]

\* AddPlayer that appends the player before it tests the lobby's state.
AddPlayer_AppendsFirst(l, id) ==
    LET ps == Append(l.Players, id)
    IN  IF l.State # LobbyStateWaiting
        THEN [err |-> ErrInvalidStateForJoin, l |-> [l EXCEPT !.Players = ps]]
        ELSE IF HasPlayer(l, id)
        THEN [err |-> ErrPlayerAlreadyJoined, l |-> l]
        ELSE IF Len(l.Players) >= MaxPlayers
        THEN [err |-> ErrLobbyFull, l |-> l]
        ELSE [err |-> NoErr,
              l |-> [l EXCEPT !.Players = ps,
                              !.State = IF Len(ps) = MaxPlayers
                                        THEN LobbyStateReady ELSE @]]

\* AddPlayer with the capacity check made before the state check.
AddPlayer_CapacityFirst(l, id) ==
    IF Len(l.Players) >= MaxPlayers
    THEN [err |-> ErrLobbyFull, l |-> l]
    ELSE IF l.State # LobbyStateWaiting
    THEN [err |-> ErrInvalidStateForJoin, l |-> l]
    ELSE IF HasPlayer(l, id)
    THEN [err |-> ErrPlayerAlreadyJoined, l |-> l]
    ELSE LET ps == Append(l.Players, id)
         IN  [err |-> NoErr,
              l |-> [l EXCEPT !.Players = ps,
                              !.State = IF Len(ps) = MaxPlayers
                                        THEN LobbyStateReady ELSE @]]

AddPlayer(l, id) ==
    IF l.State # LobbyStateWaiting
    THEN [err |-> ErrInvalidStateForJoin, l |-> l]
    ELSE IF HasPlayer(l, id)
    THEN [err |-> ErrPlayerAlreadyJoined, l |-> l]
    ELSE IF Len(l.Players) >= MaxPlayers
    THEN [err |-> ErrLobbyFull, l |-> l]
    ELSE LET ps == Append(l.Players, id)
         IN  [err |-> NoErr,
              l |-> [l EXCEPT !.Players = ps,
                              !.State = IF Len(ps) = MaxPlayers
                                        THEN LobbyStateReady ELSE @]]

\* The players left when the first occurrence of id is cut out of the slice.
Without(ps, id) ==
    LET i == CHOOSE k \in 1..Len(ps) : ps[k] = id /\ \A j \in 1..(k-1) : ps[j] # id
    IN  SubSeq(ps, 1, i-1) \o SubSeq(ps, i+1, Len(ps))

\* RemovePlayer that leaves a READY lobby READY when a player departs.
RemovePlayer_StaysReady(l, id) ==
    IF ~HasPlayer(l, id)
    THEN [err |-> ErrPlayerNotFound, l |-> l]
    ELSE LET ps == Without(l.Players, id)
             host == IF id = l.HostID /\ Len(ps) > 0 THEN ps[1] ELSE l.HostID
         IN  [err |-> NoErr, l |-> [l EXCEPT !.Players = ps, !.HostID = host]]

\* RemovePlayer that never assigns a new host.
RemovePlayer_KeepsHost(l, id) ==
    IF ~HasPlayer(l, id)
    THEN [err |-> ErrPlayerNotFound, l |-> l]
    ELSE LET ps == Without(l.Players, id)
             st == IF l.State = LobbyStateReady /\ Len(ps) < MaxPlayers
                   THEN LobbyStateWaiting ELSE l.State
         IN  [err |-> NoErr, l |-> [l EXCEPT !.Players = ps, !.State = st]]

RemovePlayer(l, id) ==
    IF ~HasPlayer(l, id)
    THEN [err |-> ErrPlayerNotFound, l |-> l]
    ELSE LET ps == Without(l.Players, id)
             st == IF l.State = LobbyStateReady /\ Len(ps) < MaxPlayers
                   THEN LobbyStateWaiting ELSE l.State
             host == IF id = l.HostID /\ Len(ps) > 0 THEN ps[1] ELSE l.HostID
         IN  [err |-> NoErr,
              l |-> [l EXCEPT !.Players = ps, !.State = st, !.HostID = host]]

Start(l) ==
    IF l.State # LobbyStateReady
    THEN [err |-> ErrInvalidStateForStart, l |-> l]
    ELSE IF Len(l.Players) < MaxPlayers
    THEN [err |-> ErrNotEnoughPlayers, l |-> l]
    ELSE [err |-> NoErr, l |-> [l EXCEPT !.State = LobbyStateActive]]

(***************************************************************************)
(* Lobby registry (services.lobbyService).                                 *)
(***************************************************************************)
Idle == [pc |-> "idle", op |-> "", code |-> "", player |-> "", ref |-> NoLobby, err |-> NoErr]

\* The call of caller c has returned err (and, for create and join, lobby ref).
Returned(c, op, code, id, ref, err) ==
    call' = [call EXCEPT ![c] = [pc |-> "done", op |-> op, code |-> code,
                                 player |-> id, ref |-> ref, err |-> err]]

\* CreateLobby: one critical section of lobbyService.mu; the loop draws codes
\* until one is free, so the code inserted is any free one.
CreateLobby(c, hostID) ==
    /\ call[c].pc = "idle"
    /\ ncalls < MaxCalls
    /\ ncalls' = ncalls + 1
    /\ UNCHANGED notReg
    /\ regLock = 0
    /\ nextRef <= MaxLobbies
    /\ \E code \in Codes :
        /\ lobbies[code] = NoLobby
        /\ lobby' = [lobby EXCEPT ![nextRef] = NewLobby(code, hostID)]
        /\ lobbies' = [lobbies EXCEPT ![code] = nextRef]
        /\ Returned(c, "create", code, hostID, nextRef, NoErr)
    /\ nextRef' = nextRef + 1
    /\ UNCHANGED regLock

\* JoinLobby, first half: the lookup under the read lock.
JoinLookup(c, code, id) ==
    /\ call[c].pc = "idle"
    /\ ncalls < MaxCalls
    /\ ncalls' = ncalls + 1
    /\ UNCHANGED notReg
    /\ regLock = 0
    /\ IF lobbies[code] = NoLobby
       THEN Returned(c, "join", code, id, NoLobby, ErrLobbyNotFound)
       ELSE call' = [call EXCEPT ![c] = [pc |-> "join_add", op |-> "join", code |-> code,
                                         player |-> id, ref |-> lobbies[code], err |-> NoErr]]
    /\ UNCHANGED <<lobbies, lobby, nextRef, regLock>>

\* JoinLobby, second half: lobby.AddPlayer, with no registry lock held.
JoinAdd(c) ==
    /\ call[c].pc = "join_add"
    /\ UNCHANGED <<ncalls, notReg>>
    /\ LET r == AddPlayer(lobby[call[c].ref], call[c].player)
       IN  /\ lobby' = [lobby EXCEPT ![call[c].ref] = r.l]
           /\ Returned(c, "join", call[c].code, call[c].player,
                       IF r.err = NoErr THEN call[c].ref ELSE NoLobby, r.err)
    /\ UNCHANGED <<lobbies, nextRef, regLock>>

\* LeaveLobby, first half: take the write lock, look up, lobby.RemovePlayer.
LeaveRemove(c, code, id) ==
    /\ call[c].pc = "idle"
    /\ ncalls < MaxCalls
    /\ ncalls' = ncalls + 1
    /\ UNCHANGED notReg
    /\ regLock = 0
    /\ IF lobbies[code] = NoLobby
       THEN /\ Returned(c, "leave", code, id, NoLobby, ErrLobbyNotFound)
            /\ UNCHANGED <<lobby, regLock>>
       ELSE LET r == RemovePlayer(lobby[lobbies[code]], id)
            IN  IF r.err # NoErr
                THEN /\ Returned(c, "leave", code, id, NoLobby, r.err)
                     /\ UNCHANGED <<lobby, regLock>>
                ELSE /\ lobby' = [lobby EXCEPT ![lobbies[code]] = r.l]
                     /\ regLock' = c
                     /\ call' = [call EXCEPT ![c] =
                            [pc |-> "leave_cleanup", op |-> "leave", code |-> code,
                             player |-> id, ref |-> lobbies[code], err |-> NoErr]]
    /\ UNCHANGED <<lobbies, nextRef>>

\* A LeaveLobby that keeps the lobby in the registry when it is empty.
LeaveCleanup_KeepsLobby(c) ==
    /\ call[c].pc = "leave_cleanup"
    /\ UNCHANGED <<ncalls, notReg>>
    /\ regLock = c
    /\ lobbies' = lobbies
    /\ regLock' = 0
    /\ Returned(c, "leave", call[c].code, call[c].player, NoLobby, NoErr)
    /\ UNCHANGED <<lobby, nextRef>>

\* LeaveLobby, second half: lobby.PlayerCount, delete if empty, unlock.
LeaveCleanup(c) ==
    /\ call[c].pc = "leave_cleanup"
    /\ UNCHANGED <<ncalls, notReg>>
    /\ regLock = c
    /\ lobbies' = IF PlayerCount(lobby[call[c].ref]) = 0
                  THEN [lobbies EXCEPT ![call[c].code] = NoLobby]
                  ELSE lobbies
    /\ regLock' = 0
    /\ Returned(c, "leave", call[c].code, call[c].player, NoLobby, NoErr)
    /\ UNCHANGED <<lobby, nextRef>>

\* StartGame, first part: the lookup under the read lock.
StartLookup(c, code, id) ==
    /\ call[c].pc = "idle"
    /\ ncalls < MaxCalls
    /\ ncalls' = ncalls + 1
    /\ UNCHANGED notReg
    /\ regLock = 0
    /\ IF lobbies[code] = NoLobby
       THEN Returned(c, "start", code, id, NoLobby, ErrLobbyNotFound)
       ELSE call' = [call EXCEPT ![c] = [pc |-> "start_ishost", op |-> "start", code |-> code,
                                         player |-> id, ref |-> lobbies[code], err |-> NoErr]]
    /\ UNCHANGED <<lobbies, lobby, nextRef, regLock>>

\* StartGame, second part: lobby.IsHost.
StartIsHost(c) ==
    /\ call[c].pc = "start_ishost"
    /\ UNCHANGED <<ncalls, notReg>>
    /\ IF IsHost(lobby[call[c].ref], call[c].player)
       THEN call' = [call EXCEPT ![c].pc = "start_start"]
       ELSE Returned(c, "start", call[c].code, call[c].player, NoLobby, ErrNotHost)
    /\ UNCHANGED <<lobbies, lobby, nextRef, regLock>>

\* StartGame, third part: lobby.Start.
StartStart(c) ==
    /\ call[c].pc = "start_start"
    /\ UNCHANGED <<ncalls, notReg>>
    /\ LET r == Start(lobby[call[c].ref])
       IN  /\ lobby' = [lobby EXCEPT ![call[c].ref] = r.l]
           /\ Returned(c, "start", call[c].code, call[c].player, NoLobby, r.err)
    /\ UNCHANGED <<lobbies, nextRef, regLock>>

\* The caller has consumed the result; the goroutine is free for a next call.
Return(c) ==
    /\ call[c].pc = "done"
    /\ UNCHANGED <<ncalls, notReg>>
    /\ call' = [call EXCEPT ![c] = Idle]
    /\ UNCHANGED <<lobbies, lobby, nextRef, regLock>>

\* GetLobby: the read-locked lookup, as a function of the state.
GetLobby(code) == IF code \in DOMAIN lobbies THEN lobbies[code] ELSE NoLobby

(***************************************************************************)
(* Connection send path (websocket.Connection): SendMessage is NextSeq,    *)
(* under Connection.mu, then SendRaw, a non-blocking channel send, with    *)
(* no lock held in between.  WritePump drains the channel in order.        *)
(***************************************************************************)
Senders == 1..NumSenders
ErrSendBufferFull == "send buffer full"
SenderIdle == [pc |-> "idle", seq |-> 0, err |-> NoErr]

\* Connection.NextSeq, as SendMessage calls it: take the next number.
NextSeq(s) ==
    /\ sender[s].pc = "idle"
    /\ outboundSeq < MaxSeq
    /\ outboundSeq' = outboundSeq + 1
    /\ sender' = [sender EXCEPT ![s] = [pc |-> "send_raw", seq |-> outboundSeq + 1,
                                        err |-> NoErr]]
    /\ UNCHANGED <<send, delivered, notSend>>

\* Connection.SendRaw: enqueue, or return ErrSendBufferFull on a full channel.
SendRaw(s) ==
    /\ sender[s].pc = "send_raw"
    /\ IF Len(send) < sendBufferSize
       THEN /\ send' = Append(send, sender[s].seq)
            /\ sender' = [sender EXCEPT ![s] = [pc |-> "idle", seq |-> sender[s].seq,
                                                err |-> NoErr]]
       ELSE /\ send' = send
            /\ sender' = [sender EXCEPT ![s] = [pc |-> "idle", seq |-> sender[s].seq,
                                                err |-> ErrSendBufferFull]]
    /\ UNCHANGED <<outboundSeq, delivered, notSend>>

\* Connection.WritePump: take the oldest message and write it to the socket.
WritePump ==
    /\ Len(send) > 0
    /\ delivered' = Append(delivered, Head(send))
    /\ send' = Tail(send)
    /\ UNCHANGED <<outboundSeq, sender, notSend>>

SendInit ==
    /\ outboundSeq = 0
    /\ send = <<>>
    /\ delivered = <<>>
    /\ sender = [s \in Senders |-> SenderIdle]

(***************************************************************************)
(* Hub, connection lifecycle and session handler (websocket.Hub,           *)
(* websocket.Connection, websocket.Handler).  Every connection has a read  *)
(* pump goroutine that handles its frames one at a time; the hub has one   *)
(* coordinator goroutine (Hub.Run).  A step is one critical section, or    *)
(* one send.  Go maps are functions whose domain is the set of keys.       *)
(***************************************************************************)
Conns == 1..NumConns
Clients == 1..NumClients
\* The nil *Connection.
NoConn == 0
\* The empty reconnect_token, and one that no connection was ever issued.
NoToken == 0
BadToken == NoToken - 1

\* websocket.ConnectionState
ConnectionStatePending == "pending"
ConnectionStateActive == "active"
ConnectionStateClosing == "closing"

\* Server -> client message types, lobby events and error codes.
TypeAuthenticated == "authenticated"
TypeLobbyUpdated == "lobby_updated"
TypeGameStarting == "game_starting"
TypeGameStarted == "game_started"
TypeError == "error"
TypeHeartbeatAck == "heartbeat_ack"
\* Client -> server message types, and the protocol version.
TypeAuthenticate == "authenticate"
TypeHeartbeat == "heartbeat"
TypeRequestLobbyState == "request_lobby_state"
TypeSetReady == "set_ready"
TypeSubmitAction == "submit_action"
TypeRequestGameState == "request_game_state"
TypeRequestRematch == "request_rematch"
TypeLeaveGame == "leave_game"
ProtocolVersion == 1
LobbyEventPlayerReadyChanged == "player_ready_changed"
LobbyEventStateChanged == "state_changed"
LobbyEventPlayerLeft == "player_left"
ErrCodeAuthRequired == "AUTH_REQUIRED"
ErrCodeAuthFailed == "AUTH_FAILED"
ErrCodeLobbyNotFound == "LOBBY_NOT_FOUND"
ErrCodePlayerNotInLobby == "PLAYER_NOT_IN_LOBBY"
ErrCodeInvalidState == "INVALID_STATE"
ErrCodeMalformedMessage == "MALFORMED_MESSAGE"
ErrCodeVersionMismatch == "VERSION_MISMATCH"
ErrCodeInvalidAction == "INVALID_ACTION"
ErrCodeNotYourTurn == "NOT_YOUR_TURN"
ErrCodeTurnMismatch == "TURN_MISMATCH"

\* IsRecoverable: what NewErrorPayload puts in ErrorPayload.Recoverable.
IsRecoverable(code) ==
    code \in {ErrCodeInvalidState, ErrCodeInvalidAction, ErrCodeNotYourTurn,
              ErrCodeTurnMismatch, ErrCodeMalformedMessage}

\* The values of Hub.onDisconnect.  NewHub leaves it nil and NewHandler
\* does not set it; Hub.SetOnDisconnect installs a callback.
NoCallback == "nil"
HandlerCallback == "handler"

\* The empty Go map.
EmptyMap == [x \in {} |-> x]
MapDel(m, k) == [x \in DOMAIN m \ {k} |-> m[x]]
MapPut(m, k, v) == (k :> v) @@ m
PlayerSet(l) == {l.Players[i] : i \in 1..Len(l.Players)}

\* sessionDuration (24 * time.Hour) and reconnectTokenDuration
\* (5 * time.Minute), in minutes.
sessionDuration == 1440
reconnectTokenDuration == 5

\* NewConnection.  sendClosed: close(c.send) has run; sockClosed: the
\* transport is closed (by Connection.Close or by the peer).
NewConnection ==
    [state |-> ConnectionStatePending, playerID |-> "", lobbyCode |-> "",
     reconnectToken |-> NoToken, sessionExpiry |-> 0,
     sendClosed |-> FALSE, sockClosed |-> FALSE]

\* Connection.ValidateReconnectToken: the token matches and time.Now() is
\* before c.sessionExpiry.
ValidateReconnectToken(c, token) ==
    /\ conn[c].reconnectToken = token
    /\ now < conn[c].sessionExpiry

\* Hub.GetConnectionByPlayerID
GetConnectionByPlayerID(playerID) ==
    IF playerID \in DOMAIN hubPlayers THEN hubPlayers[playerID] ELSE NoConn

\* Hub.IsPlayerConnected
IsPlayerConnected(playerID) == playerID \in DOMAIN hubPlayers

\* Hub.GetLobbyConnections
GetLobbyConnections(code) ==
    IF code \in DOMAIN hubLobbies THEN hubLobbies[code] ELSE {}

\* Hub.LobbyConnectionCount
LobbyConnectionCount(code) == Cardinality(GetLobbyConnections(code))

\* Handler.isPlayerReady
isPlayerReady(code, playerID) ==
    /\ code \in DOMAIN readyState
    /\ playerID \in DOMAIN readyState[code]
    /\ readyState[code][playerID]

\* Handler.setPlayerReady
setPlayerReady(rs, code, playerID, ready) ==
    LET lobbyReady == IF code \in DOMAIN rs THEN rs[code] ELSE EmptyMap
    IN MapPut(rs, code, MapPut(lobbyReady, playerID, ready))

\* A clearPlayerReadyState that deletes the player and keeps the lobby's map.
clearPlayerReadyState_KeepsKey(rs, code, playerID) ==
    IF code \in DOMAIN rs THEN MapPut(rs, code, MapDel(rs[code], playerID)) ELSE rs

\* Handler.clearPlayerReadyState
clearPlayerReadyState(rs, code, playerID) ==
    IF code \in DOMAIN rs
    THEN LET lobbyReady == MapDel(rs[code], playerID)
         IN IF DOMAIN lobbyReady = {} THEN MapDel(rs, code)
                                      ELSE MapPut(rs, code, lobbyReady)
    ELSE rs

\* A clearLobbyReadyState that empties the lobby's map and keeps its entry.
clearLobbyReadyState_KeepsEntry(rs, code) == MapPut(rs, code, EmptyMap)

\* Handler.clearLobbyReadyState
clearLobbyReadyState(rs, code) == MapDel(rs, code)

\* Handler.buildLobbyInfo: the snapshot of lobby l; ready is the set of the
\* players it reports with is_ready = true.
buildLobbyInfo(l) ==
    [code |-> l.Code, state |-> l.State, players |-> l.Players, host |-> l.HostID,
     ready |-> {id \in PlayerSet(l) : isPlayerReady(l.Code, id) /\ IsPlayerConnected(id)}]

NoInfo == [code |-> "", state |-> "", players |-> <<>>, host |-> "", ready |-> {}]

\* Messages as the client sees them: the envelope's type and correlation_id
\* (corr; "" when the envelope has none) and, of the payload, the lobby
\* event or the error code (event), the lobby snapshot (info) and
\* ErrorPayload.Recoverable (false on a message that is no error).
Msg(type, event, info) ==
    [type |-> type, event |-> event, info |-> info, corr |-> "", recoverable |-> FALSE]
ErrorMsg(code) == [Msg(TypeError, code, NoInfo) EXCEPT !.recoverable = IsRecoverable(code)]
AuthenticatedMsg == Msg(TypeAuthenticated, "", NoInfo)
HeartbeatAckMsg == Msg(TypeHeartbeatAck, "", NoInfo)
LobbyUpdatedMsg(l, event) == Msg(TypeLobbyUpdated, event, buildLobbyInfo(l))
GameStartingMsg == Msg(TypeGameStarting, "", NoInfo)
GameStartedMsg == Msg(TypeGameStarted, "", NoInfo)

\* Connection.SendMessageWithCorrelation: the envelope carries the ID.
WithCorrelation(m, correlationID) == [m EXCEPT !.corr = correlationID]

\* What Connection.SendError sends.
ErrorReply(code, correlationID) == WithCorrelation(ErrorMsg(code), correlationID)

\* A client frame: the envelope's version, type and correlation_id and the
\* fields of its payload (AuthenticatePayload, SetReadyPayload).
NoEnvelope ==
    [version |-> 0, type |-> "", corr |-> "", playerID |-> "", lobbyCode |-> "",
     token |-> NoToken, ready |-> FALSE]

\* The read pump of a connection: where it is, and the locals of the handler
\* it is in.  "none": not connected yet; "read": blocked in ReadMessage.
\* corr is env.CorrelationID of the frame being handled.
ReadIdle ==
    [pc |-> "read", playerID |-> "", lobbyCode |-> "", token |-> NoToken,
     ready |-> FALSE, ref |-> NoLobby, existing |-> NoConn, players |-> <<>>,
     panicked |-> FALSE, corr |-> "", env |-> NoEnvelope]
At(pc) == [ReadIdle EXCEPT !.pc = pc]
\* A send on the closed channel panics; ReadPump's deferred Unregister runs.
Panicked == [ReadIdle EXCEPT !.pc = "unregister", !.panicked = TRUE]

\* Hub.Run: blocked in its select; else the connection it was handed and
\* the locals of handleUnregister (entry: h.players[playerID] as it found it).
\* mu: the hub's goroutine holds Hub.mu for writing; ref: the lobby the
\* disconnect callback found.
HubIdle ==
    [pc |-> "select", conn |-> NoConn, playerID |-> "", lobbyCode |-> "",
     entry |-> NoConn, mu |-> FALSE, ref |-> NoLobby]

\* What a step of one goroutine does to its own read pump and to the inboxes.
Goto(c, next) ==
    /\ rp' = [rp EXCEPT ![c] = next]
    /\ inbox' = inbox

\* Connection.SendMessage on the goroutine's own connection: SendRaw
\* enqueues, and panics if the channel is closed.
Reply(c, m, next) ==
    IF conn[c].sendClosed
    THEN /\ rp' = [rp EXCEPT ![c] = Panicked]
         /\ inbox' = inbox
    ELSE /\ rp' = [rp EXCEPT ![c] = next]
         /\ inbox' = [inbox EXCEPT ![c] = Append(@, m)]

Enqueue(targets, m) ==
    [t \in Conns |-> IF t \in targets THEN Append(inbox[t], m) ELSE inbox[t]]

\* Hub.BroadcastToLobby, called by the goroutine of c: every connection of
\* the lobby's set that is ACTIVE is sent the message.  The map is ranged
\* in any order, so a send that panics may come after any of the others.
BroadcastToLobby(c, code, m, next) ==
    LET targets == {t \in GetLobbyConnections(code) : conn[t].state = ConnectionStateActive}
        closed == {t \in targets : conn[t].sendClosed}
    IN IF closed = {}
       THEN /\ inbox' = Enqueue(targets, m)
            /\ rp' = [rp EXCEPT ![c] = next]
       ELSE /\ \E got \in SUBSET (targets \ closed) : inbox' = Enqueue(got, m)
            /\ rp' = [rp EXCEPT ![c] = Panicked]

\* A channel send that never finds the buffer full.
TrySend_Unbounded(q, m) == [q |-> Append(q, m), err |-> NoErr]

\* Connection.SendRaw on the channel q: the select with a default case
\* enqueues if there is room and returns ErrSendBufferFull if there is none.
TrySend(q, m) ==
    IF Len(q) < sendBufferSize
    THEN [q |-> Append(q, m), err |-> NoErr]
    ELSE [q |-> q, err |-> ErrSendBufferFull]

\* A goroutine in Hub.BroadcastToLobby: the connections of its snapshot it
\* has not come to yet, the message, and what SendMessage returned so far.
BroadcasterIdle == [pc |-> "idle", todo |-> {}, msg |-> GameStartingMsg, results |-> <<>>]

\* Hub.BroadcastToLobby, up to the loop: the snapshot of the lobby's set.
BroadcastBegin(s, code, m) ==
    /\ sender[s].pc = "idle"
    /\ nmsgs < MaxMsgs
    /\ nmsgs' = nmsgs + 1
    /\ sender' = [sender EXCEPT ![s] =
                    IF GetLobbyConnections(code) = {}
                    THEN [BroadcasterIdle EXCEPT !.msg = m]
                    ELSE [pc |-> "loop", todo |-> GetLobbyConnections(code),
                          msg |-> m, results |-> <<>>]]
    /\ UNCHANGED <<inbox, regVars, outboundSeq, send, delivered, conn, hubConnections,
                   hubLobbies, hubPlayers, hubpc, readyState, rp, ntokens, unreadied, now,
                   onDisconnect, roomCode, ncallbacks>>

\* Hub.BroadcastToLobby, one turn of the loop, for the connection t the
\* range comes to: conn.State() and conn.SendMessage, whose error is dropped.
BroadcastSend(s, t) ==
    /\ sender[s].pc = "loop"
    /\ t \in sender[s].todo
    /\ LET r == IF conn[t].state = ConnectionStateActive
                THEN TrySend(inbox[t], sender[s].msg)
                ELSE [q |-> inbox[t], err |-> NoErr]
           rest == sender[s].todo \ {t}
       IN /\ inbox' = [inbox EXCEPT ![t] = r.q]
          /\ sender' = [sender EXCEPT ![s] =
                          [pc |-> IF rest = {} THEN "idle" ELSE "loop",
                           todo |-> rest,
                           msg |-> sender[s].msg,
                           results |-> Append(sender[s].results, [to |-> t, err |-> r.err])]]
    /\ UNCHANGED <<nmsgs, regVars, outboundSeq, send, delivered, conn, hubConnections,
                   hubLobbies, hubPlayers, hubpc, readyState, rp, ntokens, unreadied, now,
                   onDisconnect, roomCode, ncallbacks>>

\* Connection.WritePump of c: take the oldest message off the channel and
\* write it to the socket.
WritePumpOf(c) ==
    /\ inbox[c] # <<>>
    /\ inbox' = [inbox EXCEPT ![c] = Tail(@)]
    /\ UNCHANGED <<sender, nmsgs, regVars, outboundSeq, send, delivered, conn,
                   hubConnections, hubLobbies, hubPlayers, hubpc, readyState, rp,
                   ntokens, unreadied, now, onDisconnect, roomCode, ncallbacks>>

\* Handler.HandleConnection up to the call of Hub.Register: the lobby
\* exists, the socket is upgraded, NewConnection.
HandleConnection(c, code) ==
    /\ rp[c].pc = "none"
    /\ GetLobby(code) # NoLobby
    /\ conn' = [conn EXCEPT ![c] = NewConnection]
    /\ Goto(c, At("register"))
    /\ UNCHANGED <<hubConnections, hubLobbies, hubPlayers, hubpc, readyState,
                   ntokens, nmsgs, unreadied, notHub>>

\* Hub.Register: the send on the unbuffered channel meets Run's receive.
\* ReadPump starts as soon as the send returns.
Register(c) ==
    /\ rp[c].pc = "register"
    /\ hubpc.pc = "select"
    /\ hubpc' = [HubIdle EXCEPT !.pc = "register", !.conn = c]
    /\ Goto(c, ReadIdle)
    /\ UNCHANGED <<conn, hubConnections, hubLobbies, hubPlayers, readyState,
                   ntokens, nmsgs, unreadied, notHub>>

\* Hub.Stop closes h.stop, and Run, at its select, takes that case and
\* returns: from then on nothing receives from h.register or h.unregister.
Stop ==
    /\ hubpc.pc = "select"
    /\ hubpc' = [HubIdle EXCEPT !.pc = "stopped"]
    /\ UNCHANGED <<conn, inbox, hubConnections, hubLobbies, hubPlayers, readyState,
                   rp, ntokens, nmsgs, unreadied, notHub>>

\* Hub.handleRegister, on the hub's goroutine.
handleRegister ==
    /\ hubpc.pc = "register"
    /\ hubConnections' = hubConnections \cup {hubpc.conn}
    /\ hubpc' = HubIdle
    /\ UNCHANGED <<conn, inbox, hubLobbies, hubPlayers, readyState, rp,
                   ntokens, nmsgs, unreadied, notHub>>

\* ReadPump: ReadMessage fails (the peer went away, the read deadline
\* passed, or the transport was closed) and the loop ends.
ReadError(c) ==
    /\ rp[c].pc = "read"
    /\ Goto(c, At("unregister"))
    /\ UNCHANGED <<conn, hubConnections, hubLobbies, hubPlayers, hubpc, readyState,
                   ntokens, nmsgs, unreadied, notHub>>

\* ReadPump's deferred Hub.Unregister(c) and c.conn.Close().
Unregister(c) ==
    /\ rp[c].pc = "unregister"
    /\ hubpc.pc = "select"
    /\ hubpc' = [HubIdle EXCEPT !.pc = "unregister", !.conn = c]
    /\ conn' = [conn EXCEPT ![c].sockClosed = TRUE]
    /\ Goto(c, [At("exited") EXCEPT !.panicked = rp[c].panicked])
    /\ UNCHANGED <<hubConnections, hubLobbies, hubPlayers, readyState,
                   ntokens, nmsgs, unreadied, notHub>>

\* handleUnregister with the test h.players[playerID] == conn left out.
PlayersAfterUnregister_Unconditional(c) ==
    IF conn[c].playerID # "" THEN MapDel(hubPlayers, conn[c].playerID) ELSE hubPlayers

\* handleUnregister: the player index after the unregister of c.
PlayersAfterUnregister(c) ==
    IF /\ conn[c].playerID # ""
       /\ conn[c].playerID \in DOMAIN hubPlayers
       /\ hubPlayers[conn[c].playerID] = c
    THEN MapDel(hubPlayers, conn[c].playerID)
    ELSE hubPlayers

\* handleUnregister: the lobby index after the unregister of c.
LobbiesAfterUnregister(c) ==
    LET code == conn[c].lobbyCode
    IN IF code # "" /\ code \in DOMAIN hubLobbies
       THEN IF hubLobbies[code] \ {c} = {}
            THEN MapDel(hubLobbies, code)
            ELSE MapPut(hubLobbies, code, hubLobbies[code] \ {c})
       ELSE hubLobbies

\* handleUnregister: h.mu.Unlock() comes before the callback is invoked.
LockedAtCallback == FALSE

\* A handleUnregister without the test that the connection is registered.
handleUnregister_Unguarded ==
    /\ hubpc.pc = "unregister"
    /\ LET c == hubpc.conn
       IN /\ hubConnections' = hubConnections \ {c}
          /\ hubLobbies' = LobbiesAfterUnregister(c)
          /\ hubPlayers' = PlayersAfterUnregister(c)
          /\ hubpc' = [pc |-> IF /\ onDisconnect # NoCallback
                                 /\ conn[c].playerID # ""
                                 /\ conn[c].lobbyCode # ""
                              THEN "callback" ELSE "close",
                       conn |-> c,
                       playerID |-> conn[c].playerID,
                       lobbyCode |-> conn[c].lobbyCode,
                       entry |-> GetConnectionByPlayerID(conn[c].playerID),
                       mu |-> FALSE,
                       ref |-> NoLobby]
    /\ ncallbacks' = IF hubpc'.pc = "callback"
                     THEN [ncallbacks EXCEPT ![hubpc.conn] = @ + 1]
                     ELSE ncallbacks
    /\ UNCHANGED <<conn, inbox, readyState, rp, ntokens, nmsgs, unreadied,
                   regVars, sendVars, now, onDisconnect, roomCode>>

\* Hub.handleUnregister, the critical section of Hub.mu.  The callback it
\* captures is Hub.onDisconnect; a nil callback is not called.
handleUnregister ==
    /\ hubpc.pc = "unregister"
    /\ LET c == hubpc.conn
       IN IF c \notin hubConnections
          THEN /\ hubpc' = HubIdle
               /\ UNCHANGED <<hubConnections, hubLobbies, hubPlayers>>
          ELSE /\ hubConnections' = hubConnections \ {c}
               /\ hubLobbies' = LobbiesAfterUnregister(c)
               /\ hubPlayers' = PlayersAfterUnregister(c)
               /\ hubpc' = [pc |-> IF /\ onDisconnect # NoCallback
                                      /\ conn[c].playerID # ""
                                      /\ conn[c].lobbyCode # ""
                                   THEN "callback" ELSE "close",
                            conn |-> c,
                            playerID |-> conn[c].playerID,
                            lobbyCode |-> conn[c].lobbyCode,
                            entry |-> GetConnectionByPlayerID(conn[c].playerID),
                            mu |-> /\ LockedAtCallback
                                   /\ onDisconnect # NoCallback
                                   /\ conn[c].playerID # ""
                                   /\ conn[c].lobbyCode # "",
                            ref |-> NoLobby]
    /\ ncallbacks' = IF hubpc'.pc = "callback"
                     THEN [ncallbacks EXCEPT ![hubpc.conn] = @ + 1]
                     ELSE ncallbacks
    /\ UNCHANGED <<conn, inbox, readyState, rp, ntokens, nmsgs, unreadied,
                   regVars, sendVars, now, onDisconnect, roomCode>>

\* The disconnect callback that the handler installs: it clears the
\* player's ready entry, looks the lobby up in the registry and broadcasts
\* player_left to it.  It runs on the hub's goroutine.  First the ready
\* tracker, which has its own lock.
OnDisconnectClear ==
    /\ hubpc.pc = "callback"
    /\ readyState' = clearPlayerReadyState(readyState, hubpc.lobbyCode, hubpc.playerID)
    /\ hubpc' = [hubpc EXCEPT !.pc = "callback_lobby"]
    /\ UNCHANGED <<conn, inbox, hubConnections, hubLobbies, hubPlayers, rp,
                   ntokens, nmsgs, unreadied, notHub>>

\* The callback: the registry's GetLobby, under the registry's read lock.
OnDisconnectLobby ==
    /\ hubpc.pc = "callback_lobby"
    /\ regLock = 0
    /\ hubpc' = [hubpc EXCEPT !.pc = IF GetLobby(hubpc.lobbyCode) = NoLobby
                                      THEN "close" ELSE "callback_broadcast",
                              !.ref = GetLobby(hubpc.lobbyCode)]
    /\ UNCHANGED <<conn, inbox, hubConnections, hubLobbies, hubPlayers, readyState,
                   rp, ntokens, nmsgs, unreadied, notHub>>

\* The callback: Hub.BroadcastToLobby, which takes Hub.mu for reading and
\* sends to every ACTIVE connection of the lobby's set.  A send on a closed
\* channel panics, here on the hub's goroutine.
OnDisconnectBroadcast ==
    /\ hubpc.pc = "callback_broadcast"
    /\ ~hubpc.mu
    /\ LET targets == {t \in GetLobbyConnections(hubpc.lobbyCode) :
                         conn[t].state = ConnectionStateActive}
           closed == {t \in targets : conn[t].sendClosed}
           m == LobbyUpdatedMsg(lobby[hubpc.ref], LobbyEventPlayerLeft)
       IN IF closed = {}
          THEN /\ inbox' = Enqueue(targets, m)
               /\ hubpc' = [hubpc EXCEPT !.pc = "close"]
          ELSE /\ \E got \in SUBSET (targets \ closed) : inbox' = Enqueue(got, m)
               /\ hubpc' = [hubpc EXCEPT !.pc = "panicked"]
    /\ UNCHANGED <<conn, hubConnections, hubLobbies, hubPlayers, readyState, rp,
                   ntokens, nmsgs, unreadied, notHub>>

\* The players whose disconnect the hub has processed, as it returns to Run:
\* the unregister took the player's entry out of the player index.
Unreadied == IF hubpc.playerID # "" /\ hubpc.entry = hubpc.conn THEN unreadied \cup {hubpc.playerID} ELSE unreadied

\* Connection.Close, its critical section: nothing to do if CLOSING.
Close ==
    /\ hubpc.pc = "close"
    /\ IF conn[hubpc.conn].state = ConnectionStateClosing
       THEN /\ hubpc' = HubIdle
            /\ unreadied' = Unreadied
            /\ conn' = conn
       ELSE /\ hubpc' = [hubpc EXCEPT !.pc = "close_send"]
            /\ unreadied' = unreadied
            /\ conn' = [conn EXCEPT ![hubpc.conn].state = ConnectionStateClosing]
    /\ UNCHANGED <<inbox, hubConnections, hubLobbies, hubPlayers, readyState, rp,
                   ntokens, nmsgs, notHub>>

\* Connection.Close, after the lock: close(c.send) and c.conn.Close().
CloseSend ==
    /\ hubpc.pc = "close_send"
    /\ conn' = [conn EXCEPT ![hubpc.conn].sendClosed = TRUE,
                            ![hubpc.conn].sockClosed = TRUE]
    /\ hubpc' = HubIdle
    /\ unreadied' = Unreadied
    /\ UNCHANGED <<inbox, hubConnections, hubLobbies, hubPlayers, readyState, rp,
                   ntokens, nmsgs, notHub>>

\* A frame arrives on c: ReadPump reads it while the transport is open.
Receives(c) ==
    /\ rp[c].pc = "read"
    /\ ~conn[c].sockClosed
    /\ nmsgs < MaxMsgs
    /\ nmsgs' = nmsgs + 1

\* handleAuthenticate, from the frame to the test of the lobby's state:
\* the required fields, GetLobby, lobby.HasPlayer, and lobby.GetState, which
\* is one of the three states that allow a connection.  The lobby does not
\* change in these behaviours, so the three reads are one step.
RecvAuthenticate(c, playerID, lobbyCode, token) ==
    /\ Receives(c)
    /\ IF playerID = "" \/ lobbyCode = ""
       THEN Reply(c, ErrorMsg(ErrCodeAuthFailed), ReadIdle)
       ELSE IF GetLobby(lobbyCode) = NoLobby
       THEN Reply(c, ErrorMsg(ErrCodeLobbyNotFound), ReadIdle)
       ELSE IF ~HasPlayer(lobby[GetLobby(lobbyCode)], playerID)
       THEN Reply(c, ErrorMsg(ErrCodePlayerNotInLobby), ReadIdle)
       ELSE Goto(c, [At(IF token # NoToken THEN "auth_existing" ELSE "auth_authenticate")
                        EXCEPT !.playerID = playerID,
                               !.lobbyCode = lobbyCode,
                               !.token = token,
                               !.ref = GetLobby(lobbyCode)])
    /\ UNCHANGED <<conn, hubConnections, hubLobbies, hubPlayers, hubpc, readyState,
                   ntokens, unreadied, notHub>>

\* handleAuthenticate: existingConn := hub.GetConnectionByPlayerID, and
\* existingConn.ValidateReconnectToken if there is one.
AuthExisting(c) ==
    /\ rp[c].pc = "auth_existing"
    /\ LET existing == GetConnectionByPlayerID(rp[c].playerID)
       IN IF existing # NoConn /\ ValidateReconnectToken(existing, rp[c].token)
          THEN Goto(c, [rp[c] EXCEPT !.pc = "auth_unregister", !.token = NoToken,
                                     !.existing = existing])
          ELSE Goto(c, [rp[c] EXCEPT !.pc = "auth_authenticate", !.token = NoToken])
    /\ UNCHANGED <<conn, hubConnections, hubLobbies, hubPlayers, hubpc, readyState,
                   ntokens, nmsgs, unreadied, notHub>>

\* handleAuthenticate: hub.Unregister(existingConn) hands the old connection
\* to the hub's goroutine and returns.
AuthUnregister(c) ==
    /\ rp[c].pc = "auth_unregister"
    /\ hubpc.pc = "select"
    /\ hubpc' = [HubIdle EXCEPT !.pc = "unregister", !.conn = rp[c].existing]
    /\ Goto(c, [rp[c] EXCEPT !.pc = "auth_authenticate", !.existing = NoConn])
    /\ UNCHANGED <<conn, hubConnections, hubLobbies, hubPlayers, readyState,
                   ntokens, nmsgs, unreadied, notHub>>

\* generateReconnectToken: a token that was never issued before, here the
\* number of the connection and of its authentication.
generateReconnectToken(c) == (ntokens[c] + 1) * (NumConns + 1) + c

\* Connection.Authenticate: identity, ACTIVE, a fresh reconnect token
\* (crypto/rand does not fail) and the session's expiry.
Authenticate(c) ==
    /\ rp[c].pc = "auth_authenticate"
    /\ conn' = [conn EXCEPT ![c].playerID = rp[c].playerID,
                            ![c].lobbyCode = rp[c].lobbyCode,
                            ![c].state = ConnectionStateActive,
                            ![c].reconnectToken = generateReconnectToken(c),
                            ![c].sessionExpiry = now + sessionDuration]
    /\ ntokens' = [ntokens EXCEPT ![c] = @ + 1]
    /\ Goto(c, [At("auth_associate") EXCEPT !.ref = rp[c].ref, !.corr = rp[c].corr])
    /\ UNCHANGED <<hubConnections, hubLobbies, hubPlayers, hubpc, readyState,
                   nmsgs, unreadied, notHub>>

\* Hub.AssociateWithLobby
AssociateWithLobby(c) ==
    /\ rp[c].pc = "auth_associate"
    /\ IF conn[c].lobbyCode = "" \/ conn[c].playerID = ""
       THEN UNCHANGED <<hubLobbies, hubPlayers>>
       ELSE /\ hubLobbies' = MapPut(hubLobbies, conn[c].lobbyCode,
                                    GetLobbyConnections(conn[c].lobbyCode) \cup {c})
            /\ hubPlayers' = MapPut(hubPlayers, conn[c].playerID, c)
    /\ Goto(c, [rp[c] EXCEPT !.pc = "auth_reply"])
    /\ UNCHANGED <<conn, hubConnections, hubpc, readyState,
                   ntokens, nmsgs, unreadied, notHub>>

\* handleAuthenticate: the authenticated reply.
AuthReply(c) ==
    /\ rp[c].pc = "auth_reply"
    /\ Reply(c, WithCorrelation(AuthenticatedMsg, rp[c].corr),
             [rp[c] EXCEPT !.pc = "auth_state"])
    /\ UNCHANGED <<conn, hubConnections, hubLobbies, hubPlayers, hubpc, readyState,
                   ntokens, nmsgs, unreadied, notHub>>

\* Handler.sendLobbyState, which ends handleAuthenticate.
sendLobbyState(c) ==
    /\ rp[c].pc = "auth_state"
    /\ Reply(c, LobbyUpdatedMsg(lobby[rp[c].ref], LobbyEventStateChanged), ReadIdle)
    /\ UNCHANGED <<conn, hubConnections, hubLobbies, hubPlayers, hubpc, readyState,
                   ntokens, nmsgs, unreadied, notHub>>

\* handleSetReady: the state check, conn.LobbyCode, conn.PlayerID and
\* h.setPlayerReady.
RecvSetReady(c, ready) ==
    /\ Receives(c)
    /\ IF conn[c].state # ConnectionStateActive
       THEN /\ Reply(c, ErrorMsg(ErrCodeAuthRequired), ReadIdle)
            /\ UNCHANGED <<readyState, unreadied>>
       ELSE /\ Goto(c, [At("ready_broadcast") EXCEPT !.lobbyCode = conn[c].lobbyCode])
            /\ readyState' = setPlayerReady(readyState, conn[c].lobbyCode,
                                            conn[c].playerID, ready)
            /\ unreadied' = IF ready THEN unreadied \ {conn[c].playerID} ELSE unreadied
    /\ UNCHANGED <<conn, hubConnections, hubLobbies, hubPlayers, hubpc,
                   ntokens, notHub>>

\* handleSetReady: lobbyService.GetLobby, and Handler.broadcastLobbyUpdate
\* with player_ready_changed.
broadcastLobbyUpdate(c) ==
    /\ rp[c].pc = "ready_broadcast"
    /\ LET ref == GetLobby(rp[c].lobbyCode)
       IN IF ref = NoLobby
          THEN Reply(c, ErrorReply(ErrCodeLobbyNotFound, rp[c].corr), ReadIdle)
          ELSE BroadcastToLobby(c, lobby[ref].Code,
                                LobbyUpdatedMsg(lobby[ref], LobbyEventPlayerReadyChanged),
                                [rp[c] EXCEPT !.pc = "check_count"])
    /\ UNCHANGED <<conn, hubConnections, hubLobbies, hubPlayers, hubpc, readyState,
                   ntokens, nmsgs, unreadied, notHub>>

\* checkAndStartGame: GetLobby, GetPlayers and the test on their number,
\* then hub.LobbyConnectionCount.
CheckCount(c) ==
    /\ rp[c].pc = "check_count"
    /\ LET ref == GetLobby(rp[c].lobbyCode)
       IN IF ref = NoLobby \/ Len(lobby[ref].Players) # 2
          THEN Goto(c, ReadIdle)
          ELSE IF LobbyConnectionCount(rp[c].lobbyCode) # 2
          THEN Goto(c, ReadIdle)
          ELSE Goto(c, [rp[c] EXCEPT !.pc = "check_ready", !.players = lobby[ref].Players])
    /\ UNCHANGED <<conn, hubConnections, hubLobbies, hubPlayers, hubpc, readyState,
                   ntokens, nmsgs, unreadied, notHub>>

\* The loop of checkAndStartGame with its connection test left out.
allReady_ReadyOnly(code, players) ==
    \A i \in 1..Len(players) : isPlayerReady(code, players[i])

\* checkAndStartGame: the value of allReady after the loop over the players.
allReady(code, players) ==
    \A i \in 1..Len(players) :
        /\ isPlayerReady(code, players[i])
        /\ IsPlayerConnected(players[i])

\* checkAndStartGame: the loop over the players, under readyMu.
CheckReady(c) ==
    /\ rp[c].pc = "check_ready"
    /\ IF allReady(rp[c].lobbyCode, rp[c].players)
       THEN Goto(c, [At("start_starting") EXCEPT !.lobbyCode = rp[c].lobbyCode])
       ELSE Goto(c, ReadIdle)
    /\ UNCHANGED <<conn, hubConnections, hubLobbies, hubPlayers, hubpc, readyState,
                   ntokens, nmsgs, unreadied, notHub>>

\* Handler.BroadcastGameStarting
BroadcastGameStarting(c) ==
    /\ rp[c].pc = "start_starting"
    /\ BroadcastToLobby(c, rp[c].lobbyCode, GameStartingMsg,
                        [rp[c] EXCEPT !.pc = "start_started"])
    /\ UNCHANGED <<conn, hubConnections, hubLobbies, hubPlayers, hubpc, readyState,
                   ntokens, nmsgs, unreadied, notHub>>

\* A broadcastGameStarted that also starts the domain lobby.
broadcastGameStarted_StartsLobby(c) ==
    /\ rp[c].pc = "start_started"
    /\ BroadcastToLobby(c, rp[c].lobbyCode, GameStartedMsg,
                        [rp[c] EXCEPT !.pc = "start_clear"])
    /\ lobby' = [r \in LobbyRefs |-> IF lobby[r].Code = rp[c].lobbyCode
                                     THEN Start(lobby[r]).l ELSE lobby[r]]
    /\ UNCHANGED <<conn, hubConnections, hubLobbies, hubPlayers, hubpc, readyState,
                   ntokens, nmsgs, unreadied, lobbies, nextRef, regLock, call, ncalls,
                   sendVars, now, onDisconnect, roomCode, ncallbacks>>

\* Handler.broadcastGameStarted
broadcastGameStarted(c) ==
    /\ rp[c].pc = "start_started"
    /\ BroadcastToLobby(c, rp[c].lobbyCode, GameStartedMsg,
                        [rp[c] EXCEPT !.pc = "start_clear"])
    /\ UNCHANGED <<conn, hubConnections, hubLobbies, hubPlayers, hubpc, readyState,
                   ntokens, nmsgs, unreadied, notHub>>

\* checkAndStartGame: h.clearLobbyReadyState.
CheckClear(c) ==
    /\ rp[c].pc = "start_clear"
    /\ readyState' = clearLobbyReadyState(readyState, rp[c].lobbyCode)
    /\ Goto(c, ReadIdle)
    /\ UNCHANGED <<conn, hubConnections, hubLobbies, hubPlayers, hubpc,
                   ntokens, nmsgs, unreadied, notHub>>

(***************************************************************************)
(* Handler.handleMessage and the handlers it routes to, frame by frame:    *)
(* ReadPump reads a frame (ReadMessage) and then calls the handler, so the *)
(* hub's goroutine can act between the read and the handler's first step.  *)
(***************************************************************************)
\* ReadPump: ReadMessage returns the client's frame env and json.Unmarshal
\* succeeds; the handler is called next.
ReadMessage(c, env) ==
    /\ rp[c].pc = "read"
    /\ ~conn[c].sockClosed
    /\ nmsgs < MaxFrames
    /\ nmsgs' = nmsgs + 1
    /\ Goto(c, [At("handle") EXCEPT !.env = env])
    /\ UNCHANGED <<conn, hubConnections, hubLobbies, hubPlayers, hubpc, readyState,
                   ntokens, unreadied, notHub>>

\* The handler returns after conn.SendError(code, ..., env.CorrelationID).
Reject(c, code) ==
    /\ Reply(c, ErrorReply(code, rp[c].env.corr), ReadIdle)
    /\ UNCHANGED <<readyState, unreadied>>

\* handleAuthenticate, up to lobbyService.GetLobby.
handleAuthenticate(c, env) ==
    IF env.playerID = "" \/ env.lobbyCode = ""
    THEN Reject(c, ErrCodeAuthFailed)
    ELSE IF GetLobby(env.lobbyCode) = NoLobby
    THEN Reject(c, ErrCodeLobbyNotFound)
    ELSE /\ Goto(c, [At("auth_hasplayer") EXCEPT !.playerID = env.playerID,
                                                 !.lobbyCode = env.lobbyCode,
                                                 !.token = env.token,
                                                 !.corr = env.corr,
                                                 !.ref = GetLobby(env.lobbyCode)])
         /\ UNCHANGED <<readyState, unreadied>>

\* handleHeartbeat
handleHeartbeat(c, env) ==
    IF conn[c].state # ConnectionStateActive
    THEN Reject(c, ErrCodeAuthRequired)
    ELSE /\ Reply(c, WithCorrelation(HeartbeatAckMsg, env.corr), ReadIdle)
         /\ UNCHANGED <<readyState, unreadied>>

\* handleRequestLobbyState, up to lobbyService.GetLobby; sendLobbyState is
\* the step that follows.
handleRequestLobbyState(c, env) ==
    IF conn[c].state # ConnectionStateActive
    THEN Reject(c, ErrCodeAuthRequired)
    ELSE IF GetLobby(conn[c].lobbyCode) = NoLobby
    THEN Reject(c, ErrCodeLobbyNotFound)
    ELSE /\ Goto(c, [At("auth_state") EXCEPT !.corr = env.corr, !.env = env,
                                             !.ref = GetLobby(conn[c].lobbyCode)])
         /\ UNCHANGED <<readyState, unreadied>>

\* handleSetReady, up to h.setPlayerReady.
handleSetReady(c, env) ==
    IF conn[c].state # ConnectionStateActive
    THEN Reject(c, ErrCodeAuthRequired)
    ELSE /\ Goto(c, [At("ready_broadcast") EXCEPT !.lobbyCode = conn[c].lobbyCode,
                                                  !.corr = env.corr])
         /\ readyState' = setPlayerReady(readyState, conn[c].lobbyCode,
                                         conn[c].playerID, env.ready)
         /\ unreadied' = IF env.ready THEN unreadied \ {conn[c].playerID} ELSE unreadied

\* handleSubmitAction, handleRequestGameState and handleRequestRematch:
\* placeholders that answer INVALID_STATE.
handlePlaceholder(c, env) ==
    IF conn[c].state # ConnectionStateActive
    THEN Reject(c, ErrCodeAuthRequired)
    ELSE Reject(c, ErrCodeInvalidState)

\* handleLeaveGame, up to h.clearPlayerReadyState.
handleLeaveGame(c, env) ==
    IF conn[c].state # ConnectionStateActive
    THEN Reject(c, ErrCodeAuthRequired)
    ELSE /\ Goto(c, [At("leave_lobby") EXCEPT !.lobbyCode = conn[c].lobbyCode,
                                              !.playerID = conn[c].playerID,
                                              !.corr = env.corr])
         /\ readyState' = clearPlayerReadyState(readyState, conn[c].lobbyCode,
                                                conn[c].playerID)
         /\ unreadied' = unreadied

\* The switch of handleMessage on env.Type.
Dispatch(c, env) ==
    CASE env.type = TypeAuthenticate -> handleAuthenticate(c, env)
      [] env.type = TypeHeartbeat -> handleHeartbeat(c, env)
      [] env.type = TypeRequestLobbyState -> handleRequestLobbyState(c, env)
      [] env.type = TypeSetReady -> handleSetReady(c, env)
      [] env.type \in {TypeSubmitAction, TypeRequestGameState, TypeRequestRematch}
            -> handlePlaceholder(c, env)
      [] env.type = TypeLeaveGame -> handleLeaveGame(c, env)
      [] OTHER -> Reject(c, ErrCodeMalformedMessage)

\* Handler.handleMessage: the version check, the switch, and the first
\* step of the handler it routes to.
handleMessage(c) ==
    /\ rp[c].pc = "handle"
    /\ IF rp[c].env.version # ProtocolVersion
       THEN Reject(c, ErrCodeVersionMismatch)
       ELSE Dispatch(c, rp[c].env)
    /\ UNCHANGED <<conn, hubConnections, hubLobbies, hubPlayers, hubpc,
                   ntokens, nmsgs, notHub>>

\* handleAuthenticate: lobby.HasPlayer, and lobby.GetState, which is one of
\* the three states that allow a connection.
AuthHasPlayer(c) ==
    /\ rp[c].pc = "auth_hasplayer"
    /\ IF ~HasPlayer(lobby[rp[c].ref], rp[c].playerID)
       THEN Reply(c, ErrorReply(ErrCodePlayerNotInLobby, rp[c].corr), ReadIdle)
       ELSE Goto(c, [rp[c] EXCEPT !.pc = IF rp[c].token # NoToken
                                         THEN "auth_existing" ELSE "auth_authenticate"])
    /\ UNCHANGED <<conn, hubConnections, hubLobbies, hubPlayers, hubpc, readyState,
                   ntokens, nmsgs, unreadied, notHub>>

\* handleLeaveGame: lobbyService.LeaveLobby, one critical section of the
\* registry's write lock (lookup, RemovePlayer, delete if empty).  It returns
\* nil, ErrLobbyNotFound or ErrPlayerNotFound, and the handler goes on.
LeaveLobby(c) ==
    /\ rp[c].pc = "leave_lobby"
    /\ regLock = 0
    /\ LET ref == GetLobby(rp[c].lobbyCode)
           r == RemovePlayer(lobby[ref], rp[c].playerID)
       IN IF ref = NoLobby \/ r.err # NoErr
          THEN UNCHANGED <<lobby, lobbies>>
          ELSE /\ lobby' = [lobby EXCEPT ![ref] = r.l]
               /\ lobbies' = IF PlayerCount(r.l) = 0
                             THEN [lobbies EXCEPT ![rp[c].lobbyCode] = NoLobby]
                             ELSE lobbies
    /\ Goto(c, [rp[c] EXCEPT !.pc = "leave_broadcast"])
    /\ UNCHANGED <<conn, hubConnections, hubLobbies, hubPlayers, hubpc, readyState,
                   ntokens, nmsgs, unreadied, nextRef, regLock, call, ncalls, sendVars,
                   now, onDisconnect, roomCode, ncallbacks>>

\* handleLeaveGame: lobbyService.GetLobby, and broadcastLobbyUpdate with
\* player_left if the lobby is still there.
LeaveBroadcast(c) ==
    /\ rp[c].pc = "leave_broadcast"
    /\ LET ref == GetLobby(rp[c].lobbyCode)
       IN IF ref = NoLobby
          THEN Goto(c, [rp[c] EXCEPT !.pc = "leave_unregister"])
          ELSE BroadcastToLobby(c, lobby[ref].Code,
                                LobbyUpdatedMsg(lobby[ref], LobbyEventPlayerLeft),
                                [rp[c] EXCEPT !.pc = "leave_unregister"])
    /\ UNCHANGED <<conn, hubConnections, hubLobbies, hubPlayers, hubpc, readyState,
                   ntokens, nmsgs, unreadied, notHub>>

\* handleLeaveGame: hub.Unregister(conn) hands the connection to the hub's
\* goroutine; the handler returns and ReadPump reads on.
LeaveUnregister(c) ==
    /\ rp[c].pc = "leave_unregister"
    /\ hubpc.pc = "select"
    /\ hubpc' = [HubIdle EXCEPT !.pc = "unregister", !.conn = c]
    /\ Goto(c, ReadIdle)
    /\ UNCHANGED <<conn, hubConnections, hubLobbies, hubPlayers, readyState,
                   ntokens, nmsgs, unreadied, notHub>>

\* The hub's variables when no connection was ever made.
HubInit ==
    /\ conn = [c \in Conns |-> NewConnection]
    /\ inbox = [c \in Conns |-> <<>>]
    /\ hubConnections = {}
    /\ hubLobbies = EmptyMap
    /\ hubPlayers = EmptyMap
    /\ hubpc = HubIdle
    /\ readyState = EmptyMap
    /\ rp = [c \in Conns |-> At("none")]
    /\ ntokens = [c \in Conns |-> 0]
    /\ nmsgs = 0
    /\ unreadied = {}

(***************************************************************************)
(* Room codes (game.GenerateRoomCode).                                     *)
(***************************************************************************)
\* An alphabet of all capital letters and digits, ambiguous ones included.
roomCodeCharset_Alphanumeric ==
    <<"A", "B", "C", "D", "E", "F", "G", "H", "I", "J", "K", "L", "M", "N", "O",
      "P", "Q", "R", "S", "T", "U", "V", "W", "X", "Y", "Z",
      "0", "1", "2", "3", "4", "5", "6", "7", "8", "9">>

\* roomCodeCharset, byte by byte.
roomCodeCharset ==
    <<"A", "B", "C", "D", "E", "F", "G", "H", "J", "K", "M", "N",
      "P", "Q", "R", "S", "T", "U", "V", "W", "X", "Y", "Z",
      "2", "3", "4", "5", "6", "7", "8", "9">>
roomCodeLength == 6

\* What rand.Int(rand.Reader, charsetLen) returns: an error, or one of
\* NumDraws indices spread over 0 .. charsetLen - 1, both ends included.
RandErr == 0 - 1
Draws ==
    {(k * (Len(roomCodeCharset) - 1)) \div (NumDraws - 1) : k \in 0..(NumDraws - 1)}
        \cup {RandErr}

\* GenerateRoomCode, one turn of its loop: code[i] = roomCodeCharset[idx],
\* where idx is the draw, or i % len(roomCodeCharset) if the draw failed.
GenerateRoomCode(draw) ==
    /\ Len(roomCode) < roomCodeLength
    /\ LET i == Len(roomCode)
           idx == IF draw = RandErr THEN i % Len(roomCodeCharset) ELSE draw
       IN roomCode' = Append(roomCode, roomCodeCharset[idx + 1])
    /\ UNCHANGED <<regVars, sendVars, hubVars, now, onDisconnect, ncallbacks>>

\* GenerateRoomCode has returned string(code); it is called again.
GenerateAgain ==
    /\ Len(roomCode) = roomCodeLength
    /\ roomCode' = <<>>
    /\ UNCHANGED <<regVars, sendVars, hubVars, now, onDisconnect, ncallbacks>>

(***************************************************************************)
(* Specifications.                                                         *)
(***************************************************************************)
\* No room code is being generated and no disconnect callback was invoked.
RestInit ==
    /\ roomCode = <<>>
    /\ ncallbacks = [c \in Conns |-> 0]

RegInit ==
    /\ lobbies = [code \in Codes |-> NoLobby]
    /\ lobby = [r \in LobbyRefs |-> FreeLobby]
    /\ nextRef = 1
    /\ regLock = 0
    /\ call = [c \in Callers |-> Idle]
    /\ ncalls = 0

RegNext ==
    \E c \in Callers :
        \/ \E id \in PlayerIDs : CreateLobby(c, id)
        \/ \E code \in Codes, id \in PlayerIDs : JoinLookup(c, code, id)
        \/ JoinAdd(c)
        \/ \E code \in Codes, id \in PlayerIDs : LeaveRemove(c, code, id)
        \/ LeaveCleanup(c)
        \/ \E code \in Codes, id \in PlayerIDs : StartLookup(c, code, id)
        \/ StartIsHost(c)
        \/ StartStart(c)
        \/ Return(c)

\* The registry under concurrent create, join, leave and start_game calls.
RegistryInit == RegInit /\ SendInit /\ HubInit /\ now = 0 /\ onDisconnect = NoCallback
                /\ RestInit

SpecRegistry == RegistryInit /\ [][RegNext]_vars

\* One lobby, as NewLobby makes it, under any sequence of AddPlayer,
\* RemovePlayer and Start; call[1] holds the last call and what it returned.
TheLobby == NoLobby + 1
TheCode == CHOOSE code \in Codes : TRUE

LobbyCall(op, id, r) ==
    /\ lobby' = [lobby EXCEPT ![TheLobby] = r.l]
    /\ call' = [call EXCEPT ![1] = [pc |-> "done", op |-> op, code |-> TheCode,
                                    player |-> id, ref |-> TheLobby, err |-> r.err]]
    /\ UNCHANGED <<lobbies, nextRef, regLock, ncalls, notReg>>

LobbyAddPlayer(id) == LobbyCall("add_player", id, AddPlayer(lobby[TheLobby], id))
LobbyRemovePlayer(id) == LobbyCall("remove_player", id, RemovePlayer(lobby[TheLobby], id))
LobbyStart == LobbyCall("start", "", Start(lobby[TheLobby]))

LobbyInit ==
    /\ \E hostID \in PlayerIDs :
        lobby = [r \in LobbyRefs |-> IF r = TheLobby THEN NewLobby(TheCode, hostID)
                                                      ELSE FreeLobby]
    /\ lobbies = [code \in Codes |-> IF code = TheCode THEN TheLobby ELSE NoLobby]
    /\ nextRef = TheLobby + 1
    /\ regLock = 0
    /\ call = [c \in Callers |-> Idle]
    /\ ncalls = 0

LobbyNext ==
    \/ \E id \in PlayerIDs : LobbyAddPlayer(id)
    \/ \E id \in PlayerIDs : LobbyRemovePlayer(id)
    \/ LobbyStart

OneLobbyInit == LobbyInit /\ SendInit /\ HubInit /\ now = 0 /\ onDisconnect = NoCallback
                /\ RestInit

SpecLobby == OneLobbyInit /\ [][LobbyNext]_vars

\* NumJoiners callers, each calling JoinLobby once, on a WAITING lobby that
\* has exactly one free slot (a new lobby: the host alone).
Joiners == 1..NumJoiners

JoinInit ==
    /\ \E hostID \in PlayerIDs :
        lobby = [r \in LobbyRefs |-> IF r = TheLobby THEN NewLobby(TheCode, hostID)
                                                      ELSE FreeLobby]
    /\ lobbies = [code \in Codes |-> IF code = TheCode THEN TheLobby ELSE NoLobby]
    /\ nextRef = TheLobby + 1
    /\ regLock = 0
    /\ call = [c \in Joiners |-> Idle]
    /\ ncalls = 0

JoinNext ==
    \E c \in Joiners :
        \/ \E id \in PlayerIDs : JoinLookup(c, TheCode, id)
        \/ JoinAdd(c)

JoinersInit == JoinInit /\ SendInit /\ HubInit /\ now = 0 /\ onDisconnect = NoCallback
                /\ RestInit

SpecJoin == JoinersInit /\ [][JoinNext]_vars

\* One connection with NumSenders goroutines sending to it and its WritePump.
SendNext ==
    \/ \E s \in Senders : NextSeq(s)
    \/ \E s \in Senders : SendRaw(s)
    \/ WritePump

SendersInit == RegInit /\ SendInit /\ HubInit /\ now = 0 /\ onDisconnect = NoCallback
                /\ RestInit

SpecSend == SendersInit /\ [][SendNext]_vars

\* The hub's variables when the host has connected and authenticated, and
\* has been sent the two replies: handleRegister, Connection.Authenticate,
\* Hub.AssociateWithLobby and sendLobbyState have run for one connection.
TheHostConn == NoConn + 1
HostConnected ==
    /\ ntokens = [c \in Conns |-> IF c = TheHostConn THEN 1 ELSE 0]
    /\ conn = [c \in Conns |->
                IF c = TheHostConn
                THEN [NewConnection EXCEPT !.state = ConnectionStateActive,
                                           !.playerID = "h",
                                           !.lobbyCode = TheCode,
                                           !.reconnectToken = (NumConns + 1) + c,
                                           !.sessionExpiry = sessionDuration]
                ELSE NewConnection]
    /\ hubConnections = {TheHostConn}
    /\ hubLobbies = (TheCode :> {TheHostConn})
    /\ hubPlayers = ("h" :> TheHostConn)
    /\ hubpc = HubIdle
    /\ readyState = EmptyMap
    /\ inbox = [c \in Conns |->
                 IF c = TheHostConn
                 THEN <<AuthenticatedMsg,
                        LobbyUpdatedMsg(lobby[TheLobby], LobbyEventStateChanged)>>
                 ELSE <<>>]
    /\ rp = [c \in Conns |-> IF c = TheHostConn THEN ReadIdle ELSE At("none")]
    /\ nmsgs = 0
    /\ unreadied = {}

\* The session layer over one lobby that the host has created and a second
\* player has joined through the HTTP API.
SessionInit ==
    /\ lobby = [r \in LobbyRefs |-> IF r = TheLobby
                                    THEN AddPlayer(NewLobby(TheCode, "h"), "p").l
                                    ELSE FreeLobby]
    /\ lobbies = [code \in Codes |-> IF code = TheCode THEN TheLobby ELSE NoLobby]
    /\ nextRef = TheLobby + 1
    /\ regLock = 0
    /\ call = [c \in Callers |-> Idle]
    /\ ncalls = 0
    /\ SendInit
    /\ HubInit \/ HostConnected
    /\ now = 0
    /\ onDisconnect = NoCallback
    /\ RestInit

\* What the client of a player may put in reconnect_token: nothing, a token
\* no connection holds, or the token a connection of that player holds.
Tokens(playerID) ==
    {NoToken, BadToken}
        \cup {conn[c].reconnectToken : c \in {d \in Conns : conn[d].playerID = playerID}}

\* The client of c sends an authenticate frame.
ClientAuthenticates(c) ==
    \E playerID \in PlayerIDs \cup {""}, code \in Codes \cup {""} :
        \E token \in Tokens(playerID) :
            RecvAuthenticate(c, playerID, code, token)

HubNext ==
    \/ handleRegister
    \/ handleUnregister
    \/ Close
    \/ CloseSend
    \/ \E c \in Clients :
        \/ \E code \in Codes : HandleConnection(c, code)
        \/ Register(c)
        \/ ReadError(c)
        \/ Unregister(c)
        \/ ClientAuthenticates(c)
        \/ AuthExisting(c)
        \/ AuthUnregister(c)
        \/ Authenticate(c)
        \/ AssociateWithLobby(c)
        \/ AuthReply(c)
        \/ sendLobbyState(c)
        \/ \E ready \in BOOLEAN : RecvSetReady(c, ready)
        \/ broadcastLobbyUpdate(c)
        \/ CheckCount(c)
        \/ CheckReady(c)
        \/ BroadcastGameStarting(c)
        \/ broadcastGameStarted(c)
        \/ CheckClear(c)

SpecHub == SessionInit /\ [][HubNext]_vars

\* The ready-up phase.  Every connection either was never made or has
\* authenticated once, without reconnect token, as a player of the lobby
\* (seat[c]), the connections one after the other in the order of their
\* numbers: handleRegister, Connection.Authenticate, Hub.AssociateWithLobby
\* and the two replies have run for each.  The connections stay open and
\* their clients send set_ready{ready: true} only.
Seatings == [Conns -> PlayerSet(AddPlayer(NewLobby(TheCode, "h"), "p").l) \cup {""}]

Seated(seat) == {c \in Conns : seat[c] # ""}

\* The connection that authenticated last as player id.
LastSeat(seat, id) ==
    CHOOSE c \in Conns : seat[c] = id /\ \A d \in Conns : seat[d] = id => d <= c

PlayersConnected(seat) ==
    /\ ntokens = [c \in Conns |-> IF c \in Seated(seat) THEN 1 ELSE 0]
    /\ conn = [c \in Conns |->
                IF c \in Seated(seat)
                THEN [NewConnection EXCEPT !.state = ConnectionStateActive,
                                           !.playerID = seat[c],
                                           !.lobbyCode = TheCode,
                                           !.reconnectToken = (NumConns + 1) + c,
                                           !.sessionExpiry = sessionDuration]
                ELSE NewConnection]
    /\ hubConnections = Seated(seat)
    /\ hubLobbies = IF Seated(seat) = {} THEN EmptyMap ELSE (TheCode :> Seated(seat))
    /\ hubPlayers = [id \in {seat[c] : c \in Seated(seat)} |-> LastSeat(seat, id)]
    /\ hubpc = HubIdle
    /\ readyState = EmptyMap
    /\ inbox = [c \in Conns |->
                 IF c \in Seated(seat)
                 THEN <<AuthenticatedMsg,
                        LobbyUpdatedMsg(lobby[TheLobby], LobbyEventStateChanged)>>
                 ELSE <<>>]
    /\ rp = [c \in Conns |-> IF c \in Seated(seat) THEN ReadIdle ELSE At("none")]
    /\ nmsgs = 0
    /\ unreadied = {}

StartInit ==
    /\ lobby = [r \in LobbyRefs |-> IF r = TheLobby
                                    THEN AddPlayer(NewLobby(TheCode, "h"), "p").l
                                    ELSE FreeLobby]
    /\ lobbies = [code \in Codes |-> IF code = TheCode THEN TheLobby ELSE NoLobby]
    /\ nextRef = TheLobby + 1
    /\ regLock = 0
    /\ call = [c \in Callers |-> Idle]
    /\ ncalls = 0
    /\ SendInit
    /\ \E seat \in Seatings : PlayersConnected(seat)
    /\ now = 0
    /\ onDisconnect = NoCallback
    /\ RestInit

\* The client of c sends set_ready{ready: true}.
ClientReadies(c) == RecvSetReady(c, TRUE)

\* The steps of the set_ready handler that the read pump of c runs once it
\* has read the frame.
HandlerStep(c) ==
    \/ broadcastLobbyUpdate(c)
    \/ CheckCount(c)
    \/ CheckReady(c)
    \/ BroadcastGameStarting(c)
    \/ broadcastGameStarted(c)
    \/ CheckClear(c)

StartNext ==
    \E c \in Conns :
        \/ ClientReadies(c)
        \/ broadcastLobbyUpdate(c)
        \/ CheckCount(c)
        \/ CheckReady(c)
        \/ BroadcastGameStarting(c)
        \/ broadcastGameStarted(c)
        \/ CheckClear(c)

\* Every read pump is a goroutine of its own and none of the handler's
\* steps blocks for ever (the locks are released by every holder), so a
\* handler that has read a frame runs to its end.
SpecStart == StartInit /\ [][StartNext]_vars /\ \A c \in Conns : WF_vars(HandlerStep(c))

\* Broadcasts to a lobby whose set holds every connection, ACTIVE (h on
\* two connections, p on one), with the channels drained at the start;
\* NumSenders goroutines broadcast and every connection has its WritePump.
BroadcastSeat == [c \in Conns |-> IF c = TheHostConn + 1 THEN "p" ELSE "h"]

BroadcastInit ==
    /\ lobby = [r \in LobbyRefs |-> IF r = TheLobby
                                    THEN AddPlayer(NewLobby(TheCode, "h"), "p").l
                                    ELSE FreeLobby]
    /\ lobbies = [code \in Codes |-> IF code = TheCode THEN TheLobby ELSE NoLobby]
    /\ nextRef = TheLobby + 1
    /\ regLock = 0
    /\ call = [c \in Callers |-> Idle]
    /\ ncalls = 0
    /\ outboundSeq = 0
    /\ send = <<>>
    /\ delivered = <<>>
    /\ sender = [s \in Senders |-> BroadcasterIdle]
    /\ ntokens = [c \in Conns |-> 1]
    /\ conn = [c \in Conns |->
                [NewConnection EXCEPT !.state = ConnectionStateActive,
                                      !.playerID = BroadcastSeat[c],
                                      !.lobbyCode = TheCode,
                                      !.reconnectToken = (NumConns + 1) + c,
                                      !.sessionExpiry = sessionDuration]]
    /\ hubConnections = Conns
    /\ hubLobbies = (TheCode :> Conns)
    /\ hubPlayers = [id \in {BroadcastSeat[c] : c \in Conns} |-> LastSeat(BroadcastSeat, id)]
    /\ hubpc = HubIdle
    /\ readyState = EmptyMap
    /\ inbox = [c \in Conns |-> <<>>]
    /\ rp = [c \in Conns |-> ReadIdle]
    /\ nmsgs = 0
    /\ unreadied = {}
    /\ now = 0
    /\ onDisconnect = NoCallback
    /\ RestInit

BroadcastNext ==
    \/ \E s \in Senders, m \in {GameStartingMsg, GameStartedMsg} :
          BroadcastBegin(s, TheCode, m)
    \/ \E s \in Senders, t \in Conns : BroadcastSend(s, t)
    \/ \E c \in Conns : WritePumpOf(c)

SpecBroadcast == BroadcastInit /\ [][BroadcastNext]_vars

\* The session layer frame by frame, with every message type, envelopes of
\* the protocol's version and of another, with and without correlation_id.
\* At the start each client connection either was never made or has
\* authenticated once as a player of the lobby.
OtherVersion == ProtocolVersion + 1
ClientTypes ==
    {TypeAuthenticate, TypeHeartbeat, TypeRequestLobbyState, TypeSetReady,
     TypeSubmitAction, TypeRequestGameState, TypeRequestRematch, TypeLeaveGame,
     "unknown"}
CorrelationIDs == {"", "req-1"}

\* What a client may put in an authenticate payload: a field left empty,
\* a lobby that does not exist, a player who is not in the lobby, and the
\* players of the lobby, the host with any reconnect token.
AuthPayloads ==
    {[playerID |-> "", lobbyCode |-> TheCode, token |-> NoToken],
     [playerID |-> "h", lobbyCode |-> "", token |-> NoToken],
     [playerID |-> "h", lobbyCode |-> "BBBBBB", token |-> NoToken],
     [playerID |-> "q", lobbyCode |-> TheCode, token |-> NoToken],
     [playerID |-> "p", lobbyCode |-> TheCode, token |-> NoToken]}
    \cup {[playerID |-> "h", lobbyCode |-> TheCode, token |-> token] :
             token \in Tokens("h")}

\* The frames a client may send: the payload fields vary for the type that
\* reads them.
Envelopes ==
    {[NoEnvelope EXCEPT !.version = v, !.type = t, !.corr = id] :
        v \in {ProtocolVersion, OtherVersion}, t \in ClientTypes, id \in CorrelationIDs}
    \cup {[NoEnvelope EXCEPT !.version = ProtocolVersion, !.type = TypeSetReady,
                             !.corr = id, !.ready = TRUE] : id \in CorrelationIDs}
    \cup {[NoEnvelope EXCEPT !.version = ProtocolVersion, !.type = TypeAuthenticate,
                             !.corr = id, !.playerID = a.playerID,
                             !.lobbyCode = a.lobbyCode, !.token = a.token] :
             id \in CorrelationIDs, a \in AuthPayloads}

\* The client of c sends a frame.
ClientSends(c) == \E env \in Envelopes : ReadMessage(c, env)

\* The host connects first, on the first connection.
DispatchSeatings ==
    {seat \in Seatings :
        /\ \A c \in Conns \ Clients : seat[c] = ""
        /\ \A c \in Clients : seat[c] # "" => seat[TheHostConn] = "h"}

DispatchInit ==
    /\ lobby = [r \in LobbyRefs |-> IF r = TheLobby
                                    THEN AddPlayer(NewLobby(TheCode, "h"), "p").l
                                    ELSE FreeLobby]
    /\ lobbies = [code \in Codes |-> IF code = TheCode THEN TheLobby ELSE NoLobby]
    /\ nextRef = TheLobby + 1
    /\ regLock = 0
    /\ call = [c \in Callers |-> Idle]
    /\ ncalls = 0
    /\ SendInit
    /\ \E seat \in DispatchSeatings : PlayersConnected(seat)
    /\ now = 0
    /\ onDisconnect = NoCallback
    /\ RestInit

DispatchNext ==
    \/ handleRegister
    \/ handleUnregister
    \/ Close
    \/ CloseSend
    \/ \E c \in Clients :
        \/ \E code \in Codes : HandleConnection(c, code)
        \/ Register(c)
        \/ ReadError(c)
        \/ Unregister(c)
        \/ ClientSends(c)
        \/ handleMessage(c)
        \/ AuthHasPlayer(c)
        \/ AuthExisting(c)
        \/ AuthUnregister(c)
        \/ Authenticate(c)
        \/ AssociateWithLobby(c)
        \/ AuthReply(c)
        \/ sendLobbyState(c)
        \/ broadcastLobbyUpdate(c)
        \/ CheckCount(c)
        \/ CheckReady(c)
        \/ BroadcastGameStarting(c)
        \/ broadcastGameStarted(c)
        \/ CheckClear(c)
        \/ LeaveLobby(c)
        \/ LeaveBroadcast(c)
        \/ LeaveUnregister(c)

SpecDispatch == DispatchInit /\ [][DispatchNext]_vars

\* The ready tracker alone (Handler.readyState, game.ReadyTracker) under any
\* sequence of its three mutators, over two lobby codes and the two players
\* of a lobby; call[1] holds the last operation and call[2] the one before.
TrackerCodes == Codes \cup {"BBBBBB"}
TrackerPlayers == PlayerSet(AddPlayer(NewLobby(TheCode, "h"), "p").l)

TrackerCall(op, code, id, rs) ==
    /\ ncalls < MaxCalls
    /\ ncalls' = ncalls + 1
    /\ readyState' = rs
    /\ call' = [call EXCEPT ![1] = [Idle EXCEPT !.pc = "done", !.op = op,
                                                !.code = code, !.player = id],
                            ![2] = call[1]]
    /\ UNCHANGED <<lobbies, lobby, nextRef, regLock, sendVars, conn, inbox,
                   hubConnections, hubLobbies, hubPlayers, hubpc, rp, ntokens,
                   nmsgs, unreadied, now, onDisconnect, roomCode, ncallbacks>>

TrackerSetReady(code, id, ready) ==
    TrackerCall("set_ready", code, id, setPlayerReady(readyState, code, id, ready))
TrackerClearPlayer(code, id) ==
    TrackerCall("clear_player", code, id, clearPlayerReadyState(readyState, code, id))
TrackerClearLobby(code) ==
    TrackerCall("clear_lobby", code, "", clearLobbyReadyState(readyState, code))

TrackerNext ==
    \/ \E code \in TrackerCodes, id \in TrackerPlayers, ready \in BOOLEAN :
          TrackerSetReady(code, id, ready)
    \/ \E code \in TrackerCodes, id \in TrackerPlayers : TrackerClearPlayer(code, id)
    \/ \E code \in TrackerCodes : TrackerClearLobby(code)

TrackerInit == RegInit /\ SendInit /\ HubInit /\ now = 0 /\ onDisconnect = NoCallback
                /\ RestInit

SpecTracker == TrackerInit /\ [][TrackerNext]_vars

\* Reconnection over time.  The host authenticated on one connection when
\* the server started; other connections are made and authenticate as the
\* host, with or without a reconnect token, while the clock moves on to the
\* instants around the two durations.
Instants ==
    {reconnectTokenDuration - 1, reconnectTokenDuration + 1,
     sessionDuration - 1, sessionDuration}

\* Time passes: time.Now() reaches the instant t.
Tick(t) ==
    /\ t > now
    /\ now' = t
    /\ UNCHANGED <<regVars, sendVars, hubVars, onDisconnect, roomCode, ncallbacks>>

\* The client of c sends an authenticate frame for the host.
ClientReconnects(c) ==
    \E token \in Tokens("h") : RecvAuthenticate(c, "h", TheCode, token)

TokenInit ==
    /\ lobby = [r \in LobbyRefs |-> IF r = TheLobby
                                    THEN AddPlayer(NewLobby(TheCode, "h"), "p").l
                                    ELSE FreeLobby]
    /\ lobbies = [code \in Codes |-> IF code = TheCode THEN TheLobby ELSE NoLobby]
    /\ nextRef = TheLobby + 1
    /\ regLock = 0
    /\ call = [c \in Callers |-> Idle]
    /\ ncalls = 0
    /\ SendInit
    /\ HostConnected
    /\ now = 0
    /\ onDisconnect = NoCallback
    /\ RestInit

TokenNext ==
    \/ \E t \in Instants : Tick(t)
    \/ handleRegister
    \/ handleUnregister
    \/ Close
    \/ CloseSend
    \/ \E c \in Clients :
        \/ HandleConnection(c, TheCode)
        \/ Register(c)
        \/ ClientReconnects(c)
        \/ AuthExisting(c)
        \/ AuthUnregister(c)
        \/ Authenticate(c)
        \/ AssociateWithLobby(c)
        \/ AuthReply(c)
        \/ sendLobbyState(c)

SpecToken == TokenInit /\ [][TokenNext]_vars

\* The hub with a disconnect callback installed (Hub.SetOnDisconnect).  The
\* host and the second player have authenticated on one connection each;
\* their connections drop or authenticate as the host again, and one more
\* connection is made.
CallbackSeat == [c \in Conns |-> IF c = TheHostConn THEN "h"
                                 ELSE IF c = TheHostConn + 1 THEN "p" ELSE ""]

CallbackInit ==
    /\ lobby = [r \in LobbyRefs |-> IF r = TheLobby
                                    THEN AddPlayer(NewLobby(TheCode, "h"), "p").l
                                    ELSE FreeLobby]
    /\ lobbies = [code \in Codes |-> IF code = TheCode THEN TheLobby ELSE NoLobby]
    /\ nextRef = TheLobby + 1
    /\ regLock = 0
    /\ call = [c \in Callers |-> Idle]
    /\ ncalls = 0
    /\ SendInit
    /\ PlayersConnected(CallbackSeat)
    /\ now = 0
    /\ onDisconnect = HandlerCallback
    /\ RestInit

\* The steps of the hub's goroutine.
HubStep ==
    \/ handleRegister
    \/ handleUnregister
    \/ OnDisconnectClear
    \/ OnDisconnectLobby
    \/ OnDisconnectBroadcast
    \/ Close
    \/ CloseSend

CallbackNext ==
    \/ handleRegister
    \/ handleUnregister
    \/ OnDisconnectClear
    \/ OnDisconnectLobby
    \/ OnDisconnectBroadcast
    \/ Close
    \/ CloseSend
    \/ \E c \in Conns :
        \/ HandleConnection(c, TheCode)
        \/ Register(c)
    \/ \E c \in Clients :
        \/ ReadError(c)
        \/ Unregister(c)
        \/ ClientReconnects(c)
        \/ AuthExisting(c)
        \/ AuthUnregister(c)
        \/ Authenticate(c)
        \/ AssociateWithLobby(c)
        \/ AuthReply(c)
        \/ sendLobbyState(c)

\* The hub's goroutine is scheduled as long as it has a step to take.
SpecCallback == CallbackInit /\ [][CallbackNext]_vars /\ WF_vars(HubStep)

\* The room code generator alone, called again and again.
RoomCodeNext ==
    \/ \E draw \in Draws : GenerateRoomCode(draw)
    \/ GenerateAgain

RoomCodeInit == RegInit /\ SendInit /\ HubInit /\ now = 0 /\ onDisconnect = NoCallback
                /\ RestInit

SpecRoomCode == RoomCodeInit /\ [][RoomCodeNext]_vars


\* The set_ready handlers of the two players' connections while the players
\* leave the lobby through the lobby service (the HTTP leave route), which
\* deletes the lobby when the last player has left.
SetReadyInit ==
    /\ lobby = [r \in LobbyRefs |-> IF r = TheLobby
                                    THEN AddPlayer(NewLobby(TheCode, "h"), "p").l
                                    ELSE FreeLobby]
    /\ lobbies = [code \in Codes |-> IF code = TheCode THEN TheLobby ELSE NoLobby]
    /\ nextRef = TheLobby + 1
    /\ regLock = 0
    /\ call = [c \in Callers |-> Idle]
    /\ ncalls = 0
    /\ SendInit
    /\ PlayersConnected(CallbackSeat)
    /\ now = 0
    /\ onDisconnect = NoCallback
    /\ RestInit

\* The goroutine that serves the leave requests, one request at a time.
TheLeaver == CHOOSE c \in Callers : \A d \in Callers : c <= d

SetReadyNext ==
    \/ \E code \in Codes, id \in PlayerIDs : LeaveRemove(TheLeaver, code, id)
    \/ LeaveCleanup(TheLeaver)
    \/ Return(TheLeaver)
    \/ \E c \in Clients :
        \/ ClientReadies(c)
        \/ broadcastLobbyUpdate(c)
        \/ CheckCount(c)
        \/ CheckReady(c)
        \/ BroadcastGameStarting(c)
        \/ broadcastGameStarted(c)
        \/ CheckClear(c)

SpecSetReady == SetReadyInit /\ [][SetReadyNext]_vars


\* The hub's loop with connections that are made and that drop, and a hub
\* that may be stopped.  The hub's goroutine is scheduled as long as it has
\* a step to take, and a request that can be handed to the hub again and
\* again is handed to it.
StopNext ==
    \/ Stop
    \/ handleRegister
    \/ handleUnregister
    \/ Close
    \/ CloseSend
    \/ \E c \in Conns :
        \/ HandleConnection(c, TheCode)
        \/ Register(c)
        \/ ReadError(c)
        \/ Unregister(c)

SpecStop ==
    /\ SetReadyInit
    /\ [][StopNext]_vars
    /\ WF_vars(HubStep)
    /\ \A c \in Conns : SF_vars(Register(c) \/ Unregister(c))

(***************************************************************************)
(* Claims.                                                                 *)
(***************************************************************************)
Registered == {lobbies[code] : code \in Codes} \ {NoLobby}
Allocated == 1..(nextRef - 1)

\* C1: under any interleaving of create, join, leave and start_game, every
\* lobby stored in the registry that has at least one player has a HostID
\* that is the ID of one of its players.
C1_HostIsMember ==
    \A r \in Registered :
        Len(lobby[r].Players) > 0 => lobby[r].HostID \in PlayerSet(lobby[r])

\* C2: after any sequence of add_player, remove_player and start calls the
\* lobby is WAITING exactly when it is not ACTIVE and has fewer than
\* MaxPlayers players, and READY exactly when it is not ACTIVE and has
\* exactly MaxPlayers players.
C2_StateReflectsCount ==
    LET l == lobby[TheLobby]
    IN  /\ (l.State = LobbyStateWaiting) <=>
               (l.State # LobbyStateActive /\ Len(l.Players) < MaxPlayers)
        /\ (l.State = LobbyStateReady) <=>
               (l.State # LobbyStateActive /\ Len(l.Players) = MaxPlayers)

\* A leave has just taken a READY lobby back to WAITING.
C2_Witness ==
    /\ call[1].pc = "done" /\ call[1].op = "remove_player" /\ call[1].err = NoErr
    /\ lobby[TheLobby].State = LobbyStateWaiting
    /\ Len(lobby[TheLobby].Players) = MaxPlayers - 1

\* C3 as stated: when NumJoiners callers have concurrently joined a WAITING
\* lobby with exactly one free slot, exactly one join has succeeded, the lobby
\* has MaxPlayers players and every other join has returned an error.
AllJoined == \A c \in Joiners : call[c].pc = "done"
Succeeded == {c \in Joiners : call[c].err = NoErr}
\* The member the lobby had when the joins began (nobody leaves).
FirstMember == lobby[TheLobby].Players[1]

ExactlyOneJoined ==
    /\ Cardinality(Succeeded) = 1
    /\ Len(lobby[TheLobby].Players) = MaxPlayers
    /\ \A c \in Joiners \ Succeeded : call[c].err # NoErr

C3_ExactlyOneJoinSucceeds == AllJoined => ExactlyOneJoined

\* C3 as amended: the same, provided at least one of the joiners is not
\* already a member of the lobby.
C3_ExactlyOneNewJoinSucceeds ==
    (AllJoined /\ \E c \in Joiners : call[c].player # FirstMember) => ExactlyOneJoined

\* Two joiners with different new IDs raced for the slot and one of them won.
C3_Witness ==
    /\ AllJoined
    /\ \E c, d \in Joiners :
        /\ call[c].player # FirstMember /\ call[d].player # FirstMember
        /\ call[c].player # call[d].player
        /\ call[c].err = NoErr /\ call[d].err = ErrInvalidStateForJoin

\* C4: under any interleaving of concurrent senders, the messages enter the
\* outbound buffer in strictly increasing seq order (so what the client has
\* been sent, followed by what is still buffered, is increasing).
StrictlyIncreasing(q) == \A i, j \in 1..Len(q) : i < j => q[i] < q[j]

C4_BufferInSeqOrder == StrictlyIncreasing(delivered \o send)

\* C5: whether or not some sends returned ErrSendBufferFull, the seq values
\* delivered to the client are exactly 1, 2, 3, ... with none skipped.  Stated
\* when no send is in progress and the buffer is drained, and of the set of
\* values, so that neither a message still on its way nor the order counts.
Quiescent == send = <<>> /\ \A s \in Senders : sender[s].pc = "idle"

C5_DeliveredGapFree ==
    Quiescent => {delivered[i] : i \in 1..Len(delivered)} = 1..Len(delivered)

\* The connection is in handleAuthenticate.
InAuth(c) ==
    rp[c].pc \in {"auth_existing", "auth_unregister", "auth_authenticate",
                  "auth_associate", "auth_reply", "auth_state"}
\* The connection has authenticated, and is not authenticating again.
AuthDone(c) == conn[c].playerID # "" /\ ~InAuth(c)
\* The connection has authenticated and its read pump waits for a frame:
\* its handlers have returned and it has not asked to be unregistered.
Settled(c) == conn[c].playerID # "" /\ rp[c].pc = "read"

\* C6: when a player has authenticated on connection a and then on
\* connection b, with or without a reconnect token, then once b's
\* authentication has completed, a has been unregistered: a is in none of
\* the hub's indices, its send channel is closed, and the player is
\* connected through b only.  (Both handlers have returned and the player
\* index holds b, so b was associated after a.)
C6_OldConnectionUnregistered ==
    \A a, b \in Conns :
        ( /\ a # b
          /\ Settled(a) /\ Settled(b)
          /\ conn[a].playerID = conn[b].playerID
          /\ GetConnectionByPlayerID(conn[b].playerID) = b )
        => /\ a \notin hubConnections
           /\ a \notin GetLobbyConnections(conn[a].lobbyCode)
           /\ conn[a].sendClosed

\* C7: right after AssociateWithLobby has run for an authentication of a
\* player on connection c, the player is connected and the player index
\* holds c; and when the hub processes the unregister of a connection, the
\* entry of every player whose index entry is another connection stays as
\* it is, so the unregister of an earlier connection never removes or
\* replaces the entry of the newer one.
C7_PlayerIndexKeepsNewConnection ==
    [][ /\ \A c \in Conns :
              (rp[c].pc = "auth_associate" /\ rp'[c].pc = "auth_reply")
              => /\ conn[c].playerID \in DOMAIN hubPlayers'
                 /\ hubPlayers'[conn[c].playerID] = c
        /\ (hubpc.pc = "unregister" /\ hubpc'.pc # "unregister")
           => \A id \in DOMAIN hubPlayers :
                  hubPlayers[id] # hubpc.conn
                  => /\ id \in DOMAIN hubPlayers'
                     /\ hubPlayers'[id] = hubPlayers[id]
      ]_vars

\* The hub has just processed the unregister of a registered connection of
\* a player whose index entry was, and is, another connection of that player.
C7_Witness ==
    /\ hubpc.pc = "close"
    /\ hubpc.playerID # ""
    /\ hubpc.entry \notin {NoConn, hubpc.conn}
    /\ GetConnectionByPlayerID(hubpc.playerID) = hubpc.entry
    /\ conn[hubpc.entry].playerID = hubpc.playerID

\* Connection a was associated as its player and the player index now holds
\* another connection of that player.
Displaced(a) ==
    /\ AuthDone(a)
    /\ a \in GetLobbyConnections(conn[a].lobbyCode)
    /\ GetConnectionByPlayerID(conn[a].playerID) \notin {NoConn, a}
\* A message that only Hub.BroadcastToLobby sends.
IsBroadcast(m) ==
    \/ m.type \in {TypeGameStarting, TypeGameStarted}
    \/ m.type = TypeLobbyUpdated /\ m.event # LobbyEventStateChanged
\* This step has enqueued a message on c.
Sent(c) == Len(inbox'[c]) > Len(inbox[c])
LastSent(c) == inbox'[c][Len(inbox'[c])]

\* C8: no lobby broadcast is delivered to a connection that a later
\* authentication of the same player ID has displaced.
C8_NoBroadcastToDisplaced ==
    [][ \A a \in Conns :
            (Displaced(a) /\ Settled(a)) => ~(Sent(a) /\ IsBroadcast(LastSent(a))) ]_vars

\* C9: when the hub has finished processing the unregister of an
\* authenticated connection of player p in lobby C, the ready tracker holds
\* no entry for (C, p).
C9_UnregisterClearsReady ==
    [][ ( /\ hubpc.pc \in {"close", "close_send"}
          /\ hubpc'.pc = "select"
          /\ hubpc.playerID # ""
          /\ hubpc.lobbyCode # "" )
        => ~( /\ hubpc.lobbyCode \in DOMAIN readyState'
              /\ hubpc.playerID \in DOMAIN readyState'[hubpc.lobbyCode] ) ]_vars

\* C10: once a player's disconnect has been processed, no lobby snapshot
\* sent afterwards reports the player with is_ready = true until the player
\* sends set_ready{ready: true} again, also after the player has
\* re-authenticated.
C10_NotReadyAfterDisconnect ==
    [][ \A c \in Conns :
            (Sent(c) /\ LastSent(c).type = TypeLobbyUpdated)
            => LastSent(c).info.ready \cap unreadied = {} ]_vars

\* Connection c is an open, registered, authenticated connection of player id.
Holds(c, id) ==
    /\ c \in hubConnections
    /\ conn[c].state = ConnectionStateActive
    /\ conn[c].playerID = id
    /\ ~conn[c].sockClosed
\* The lobby is full, each of its players holds an authenticated connection
\* and the last set_ready of each was ready: true.
BothReady ==
    /\ Len(lobby[TheLobby].Players) = MaxPlayers
    /\ \A id \in PlayerSet(lobby[TheLobby]) :
            /\ \E c \in Conns : Holds(c, id)
            /\ isPlayerReady(TheCode, id)
\* Connection c was sent game_starting and, after it, game_started.
GotStartSequence(c) ==
    \E i, j \in 1..Len(inbox[c]) :
        /\ i < j
        /\ inbox[c][i].type = TypeGameStarting
        /\ inbox[c][j].type = TypeGameStarted
StartDelivered ==
    \A c \in Conns :
        (\E id \in PlayerSet(lobby[TheLobby]) : Holds(c, id)) => GotStartSequence(c)

\* C12: when both players of the full lobby hold an authenticated
\* connection and each has sent set_ready{ready: true} without unreadying,
\* every authenticated connection of a player eventually has received
\* game_starting and then game_started.
C12_BothReadyStartsGame == BothReady ~> StartDelivered

\* This step has enqueued a message of type t on some connection.
SentType(t) == \E c \in Conns : Sent(c) /\ LastSent(c).type = t
\* The handler of connection c has moved, in this step, to position pc.
Enters(c, pc) == rp[c].pc # pc /\ rp'[c].pc = pc
\* Some connection's inbox holds a message of type t.
Received(t) == \E c \in Conns : \E i \in 1..Len(inbox[c]) : inbox[c][i].type = t

C13_ReadyClearedAfterStart ==
    [][ \A c \in Conns :
            (rp[c].pc = "start_clear" /\ rp'[c].pc # "start_clear")
            => rp[c].lobbyCode \notin DOMAIN readyState' ]_vars

\* A game-start sequence has completed: game_started was delivered, no
\* handler is inside a start sequence, and the tracker has no entry for
\* the lobby.
C13_Witness ==
    /\ Received(TypeGameStarted)
    /\ \A c \in Conns : rp[c].pc \notin {"start_starting", "start_started", "start_clear"}
    /\ TheCode \notin DOMAIN readyState

\* The positions of a set_ready handler after the frame was read.
ReadyUpPcs == {"ready_broadcast", "check_count", "check_ready",
               "start_starting", "start_started", "start_clear"}
\* This step is a step of the set_ready handler of connection c.
ReadyUpStep(c) ==
    /\ rp'[c] # rp[c]
    /\ rp[c].pc \in ReadyUpPcs \/ rp'[c].pc = "ready_broadcast"

\* C14: no step of the WebSocket ready-up path changes a domain lobby or
\* the registry: the lobby's state, players and host are the same before
\* and after every step of a set_ready handler, the two game-start
\* broadcasts included, so the state does not become ACTIVE there.
C14_ReadyUpLeavesLobby ==
    [][ ( \/ \E c \in Conns : ReadyUpStep(c)
          \/ SentType(TypeGameStarting)
          \/ SentType(TypeGameStarted) )
        => lobby' = lobby /\ lobbies' = lobbies ]_vars

\* game_started has been delivered and the lobby is still READY with its
\* two players and its host.
C14_Witness ==
    /\ Received(TypeGameStarted)
    /\ lobby[TheLobby].State = LobbyStateReady
    /\ lobby[TheLobby].Players = <<"h", "p">>
    /\ lobby[TheLobby].HostID = "h"

\* The last call on the one lobby, and the lobby before and after it.
LastCall == call'[1]
Before == lobby[TheLobby]
After == lobby'[TheLobby]

\* C15: the state of a lobby changes only from WAITING to READY by the
\* successful join that fills it, from READY to WAITING by a successful
\* leave, and from READY to ACTIVE by a successful start; an ACTIVE lobby
\* stays ACTIVE, every join into it returns ErrInvalidStateForJoin and
\* changes nothing, and the leave of one of its players succeeds.
C15_StateTransitions ==
    [][ /\ After.State # Before.State
           => \/ /\ Before.State = LobbyStateWaiting
                 /\ After.State = LobbyStateReady
                 /\ LastCall.op = "add_player" /\ LastCall.err = NoErr
                 /\ Len(Before.Players) = MaxPlayers - 1
                 /\ Len(After.Players) = MaxPlayers
              \/ /\ Before.State = LobbyStateReady
                 /\ After.State = LobbyStateWaiting
                 /\ LastCall.op = "remove_player" /\ LastCall.err = NoErr
              \/ /\ Before.State = LobbyStateReady
                 /\ After.State = LobbyStateActive
                 /\ LastCall.op = "start" /\ LastCall.err = NoErr
        /\ Before.State = LobbyStateActive
           => /\ After.State = LobbyStateActive
              /\ LastCall.op = "add_player"
                 => LastCall.err = ErrInvalidStateForJoin /\ After = Before
              /\ (LastCall.op = "remove_player" /\ HasPlayer(Before, LastCall.player))
                 => LastCall.err = NoErr /\ ~HasPlayer(After, LastCall.player)
      ]_vars

\* The lobby is ACTIVE and the last call was a join that it rejected.
C15_Witness ==
    /\ lobby[TheLobby].State = LobbyStateActive
    /\ call[1].op = "add_player"
    /\ call[1].err = ErrInvalidStateForJoin

\* C16: AddPlayer tests the state before the duplicate and the capacity:
\* every join into a lobby that is not WAITING returns
\* ErrInvalidStateForJoin, never ErrLobbyFull or ErrPlayerAlreadyJoined,
\* so the third joiner of a full READY lobby gets ErrInvalidStateForJoin.
C16_StateCheckedFirst ==
    [][ (LastCall.op = "add_player" /\ Before.State # LobbyStateWaiting)
        => LastCall.err = ErrInvalidStateForJoin /\ After = Before ]_vars

\* A player who is not in the full READY lobby has tried to join it and
\* got ErrInvalidStateForJoin.
C16_Witness ==
    /\ lobby[TheLobby].State = LobbyStateReady
    /\ Len(lobby[TheLobby].Players) = MaxPlayers
    /\ call[1].op = "add_player"
    /\ ~HasPlayer(lobby[TheLobby], call[1].player)
    /\ call[1].err = ErrInvalidStateForJoin

\* Caller c has, in this step, run the RemovePlayer of a LeaveLobby with success.
Removes(c) == call[c].pc = "idle" /\ call'[c].pc = "leave_cleanup"

\* C17: when RemovePlayer removes the host and players remain, the lobby's
\* host is from then on the first of the remaining players in insertion
\* order; when it removes a player who is not the host, the host stays.
C17_HostReassigned ==
    [][ \A c \in Callers :
            Removes(c)
            => LET id == call'[c].player
                   before == lobby[call'[c].ref]
                   after == lobby'[call'[c].ref]
                   rest == SelectSeq(before.Players, LAMBDA x : x # id)
               IN  /\ after.Players = rest
                   /\ (id = before.HostID /\ Len(rest) > 0) => after.HostID = Head(rest)
                   /\ id # before.HostID => after.HostID = before.HostID
      ]_vars

\* Three calls were made: caller 1 created the lobby as h, p joined, and
\* caller 2's LeaveLobby of h, the host, has returned; p is the host.
C17_Witness ==
    /\ ncalls = 3
    /\ call[1].pc = "done" /\ call[1].op = "create" /\ call[1].player = "h"
    /\ call[2].pc = "done" /\ call[2].op = "leave" /\ call[2].player = "h"
    /\ call[2].err = NoErr
    /\ lobbies[call[1].code] = call[1].ref
    /\ lobby[call[1].ref].Players = <<"p">>
    /\ lobby[call[1].ref].HostID = "p"

\* C18: whenever start_game succeeds, the caller is the host and a player
\* of the lobby at the moment the lobby becomes ACTIVE; and a caller whom
\* the host check finds not to be the host gets ErrNotHost.
C18_StarterIsHost ==
    [][ \A c \in Callers :
            /\ (call[c].pc = "start_start" /\ call'[c].pc = "done" /\ call'[c].err = NoErr)
               => /\ lobby'[call[c].ref].State = LobbyStateActive
                  /\ IsHost(lobby'[call[c].ref], call[c].player)
                  /\ HasPlayer(lobby'[call[c].ref], call[c].player)
            /\ (call[c].pc = "start_ishost" /\ call'[c].pc = "done")
               => /\ call'[c].err = ErrNotHost
                  /\ ~IsHost(lobby[call[c].ref], call[c].player)
      ]_vars

\* C19: whenever no LeaveLobby is inside its critical section, the
\* registry holds no lobby with zero players: GetLobby on the code of a
\* lobby whose last player has left does not return that lobby.
C19_NoEmptyLobbyRegistered ==
    regLock = 0
    => \A code \in Codes :
           GetLobby(code) # NoLobby => PlayerCount(lobby[GetLobby(code)]) > 0

\* A LeaveLobby has returned after it removed the last player of a lobby,
\* and GetLobby on the code finds no lobby.
C19_Witness ==
    \E c \in Callers :
        /\ call[c].pc = "done" /\ call[c].op = "leave" /\ call[c].err = NoErr
        /\ GetLobby(call[c].code) = NoLobby
        /\ \E r \in LobbyRefs :
               /\ r < nextRef
               /\ lobby[r].Code = call[c].code
               /\ PlayerCount(lobby[r]) = 0

\* C20: when the hub has processed the unregister of a connection, the
\* connection is in none of the three indices: not in Hub.connections, in
\* no lobby's set and under no player ID, whatever authenticate frames it
\* had handled before.
C20_UnregisterRemovesFromIndices ==
    [][ (hubpc.pc = "unregister" /\ hubpc'.pc # "unregister")
        => /\ hubpc.conn \notin hubConnections'
           /\ \A code \in DOMAIN hubLobbies' : hubpc.conn \notin hubLobbies'[code]
           /\ \A id \in DOMAIN hubPlayers' : hubPlayers'[id] # hubpc.conn
      ]_vars

\* The connections whose Hub.Register has returned and whose unregister
\* nobody has asked for: the read pump waits for the first frame of a
\* connection that never authenticated.
RegisterReturned(c) ==
    /\ rp[c].pc = "read"
    /\ conn[c].state = ConnectionStatePending
    /\ ~conn[c].sockClosed

\* C26: once Hub.Register(conn) has returned to its caller, every read of
\* the hub's indices finds conn in Hub.connections.
C26_RegisteredOnceRegisterReturns ==
    \A c \in Conns : RegisterReturned(c) => c \in hubConnections

\* C30: after any sequence of set-ready, clear-player and clear-lobby
\* operations the ready tracker holds no lobby key whose inner map is empty.
C30_NoEmptyInnerMap ==
    \A code \in DOMAIN readyState : DOMAIN readyState[code] # {}

\* set_ready(AAAAAA, h) and then clear_player(AAAAAA, h) on the empty
\* tracker: the clear removed the last entry of the lobby, and its key.
C30_Witness ==
    /\ ncalls = 2
    /\ call[2].op = "set_ready" /\ call[2].code = TheCode /\ call[2].player = "h"
    /\ call[1].op = "clear_player" /\ call[1].code = TheCode /\ call[1].player = "h"
    /\ TheCode \notin DOMAIN readyState

\* The turn of s's broadcast loop that this step takes for the ACTIVE
\* connection t.
Turn(s, t) ==
    /\ sender[s].pc = "loop"
    /\ conn[t].state = ConnectionStateActive
    /\ t \in sender[s].todo
    /\ sender'[s].todo = sender[s].todo \ {t}
    /\ Len(sender'[s].results) = Len(sender[s].results) + 1

LastResult(s) == sender'[s].results[Len(sender'[s].results)]

\* C25: a send attempted while the connection's outbound buffer is full
\* returns ErrSendBufferFull at once and leaves the buffer as it was, and
\* the broadcast goes on: it still comes to every other connection of its
\* snapshot, and each of those that has room gets the message.
C25_FullBufferRejectsSend ==
    [][ \A s \in Senders, t \in Conns :
          Turn(s, t) =>
            /\ LastResult(s).to = t
            /\ \A c \in Conns \ {t} : inbox'[c] = inbox[c]
            /\ IF Len(inbox[t]) >= sendBufferSize
               THEN /\ LastResult(s).err = ErrSendBufferFull
                    /\ inbox'[t] = inbox[t]
               ELSE /\ LastResult(s).err = NoErr
                    /\ inbox'[t] = Append(inbox[t], sender[s].msg)
            /\ sender'[s].pc = (IF sender[s].todo = {t} THEN "idle" ELSE "loop")
      ]_vars

\* A broadcast that met a full buffer first and then delivered to the two
\* other connections.
C25_Witness ==
    \E s \in Senders :
        /\ sender[s].pc = "idle"
        /\ Len(sender[s].results) = NumConns
        /\ sender[s].results[1].err = ErrSendBufferFull
        /\ \A i \in 2..NumConns :
              /\ sender[s].results[i].err = NoErr
              /\ inbox[sender[s].results[i].to] # <<>>
              /\ inbox[sender[s].results[i].to][Len(inbox[sender[s].results[i].to])]
                    = sender[s].msg

\* The read pump of c runs handleMessage on the frame it has read.
Handles(c) == rp[c].pc = "handle" /\ rp'[c] # rp[c]

\* The step enqueues exactly message m on c's channel.
Answered(c, m) == inbox'[c] = Append(inbox[c], m)

HubIndices == <<hubConnections, hubLobbies, hubPlayers>>

AuthRequiredTypes ==
    {TypeHeartbeat, TypeRequestLobbyState, TypeSetReady, TypeSubmitAction,
     TypeRequestGameState, TypeRequestRematch, TypeLeaveGame}

\* C21: a heartbeat, request_lobby_state, set_ready, submit_action,
\* request_game_state, request_rematch or leave_game frame handled on a
\* connection that is not ACTIVE is answered with AUTH_REQUIRED and changes
\* neither the ready tracker nor the lobby's membership nor the hub indices.
C21_AuthRequiredWhenNotActive ==
    [][ \A c \in Clients :
          ( /\ Handles(c)
            /\ rp[c].env.version = ProtocolVersion
            /\ rp[c].env.type \in AuthRequiredTypes
            /\ conn[c].state # ConnectionStateActive )
          => /\ Answered(c, ErrorReply(ErrCodeAuthRequired, rp[c].env.corr))
             /\ UNCHANGED <<readyState, lobby, lobbies, HubIndices>>
      ]_vars

\* The message the step has put last on c's channel.
LastEnqueued(c) == inbox'[c][Len(inbox'[c])]

\* C22: an envelope whose version is not the protocol's, whatever its type
\* and whatever the connection's state, is answered with one error with
\* code VERSION_MISMATCH, recoverable false and the request's
\* correlation_id, and is not dispatched: the connection, the hub, the
\* lobby and the ready tracker stay as they are.
C22_VersionMismatchRejected ==
    [][ \A c \in Clients :
          (Handles(c) /\ rp[c].env.version # ProtocolVersion)
          => /\ Len(inbox'[c]) = Len(inbox[c]) + 1
             /\ SubSeq(inbox'[c], 1, Len(inbox[c])) = inbox[c]
             /\ LastEnqueued(c).type = TypeError
             /\ LastEnqueued(c).event = ErrCodeVersionMismatch
             /\ LastEnqueued(c).recoverable = FALSE
             /\ LastEnqueued(c).corr = rp[c].env.corr
             /\ rp'[c] = ReadIdle
             /\ UNCHANGED <<conn, HubIndices, hubpc, lobby, lobbies, readyState>>
      ]_vars

\* The read pump of c runs handleAuthenticate on the frame it has read.
HandlesAuthenticate(c) ==
    /\ Handles(c)
    /\ rp[c].env.version = ProtocolVersion
    /\ rp[c].env.type = TypeAuthenticate

\* The step rejects the authenticate frame of c with the error code: the
\* error is enqueued with the request's correlation_id, the handler returns,
\* and the connection and the hub indices stay as they are.
FailsWith(c, code, correlationID) ==
    /\ Answered(c, ErrorReply(code, correlationID))
    /\ rp'[c] = ReadIdle
    /\ UNCHANGED <<conn, HubIndices>>

\* C23: authenticate fails with AUTH_FAILED when player_id or lobby_code is
\* empty, otherwise with LOBBY_NOT_FOUND when the lobby does not exist,
\* otherwise with PLAYER_NOT_IN_LOBBY when the player is not a member of it;
\* a failed authenticate leaves the connection's state and the hub indices
\* unchanged.
C23_AuthenticateFailures ==
    [][ \A c \in Clients :
          /\ HandlesAuthenticate(c) =>
               IF rp[c].env.playerID = "" \/ rp[c].env.lobbyCode = ""
               THEN FailsWith(c, ErrCodeAuthFailed, rp[c].env.corr)
               ELSE GetLobby(rp[c].env.lobbyCode) = NoLobby
                      => FailsWith(c, ErrCodeLobbyNotFound, rp[c].env.corr)
          /\ ( /\ rp[c].pc = "auth_hasplayer"
               /\ rp'[c] # rp[c]
               /\ ~HasPlayer(lobby[rp[c].ref], rp[c].playerID) )
             => FailsWith(c, ErrCodePlayerNotInLobby, rp[c].corr)
      ]_vars

\* The correlation_id of the request that the read pump of c is handling.
RequestCorrelation(c) == IF rp[c].pc = "handle" THEN rp[c].env.corr ELSE rp[c].corr

\* The step is one of c's handler in which it sends a directed response to
\* the request it is handling: an error, authenticated, heartbeat_ack, or
\* the lobby_updated that answers request_lobby_state.
DirectedResponse(c) ==
    /\ rp'[c] # rp[c]
    /\ Len(inbox'[c]) = Len(inbox[c]) + 1
    /\ \/ LastEnqueued(c).type \in {TypeError, TypeAuthenticated, TypeHeartbeatAck}
       \/ /\ rp[c].pc = "auth_state"
          /\ rp[c].env.type = TypeRequestLobbyState

\* C29: every directed response to a client request that carried a
\* correlation_id carries that correlation_id.
C29_ResponsesEchoCorrelation ==
    [][ \A c \in Clients :
          (DirectedResponse(c) /\ RequestCorrelation(c) # "")
          => LastEnqueued(c).corr = RequestCorrelation(c)
      ]_vars


\* The read pump of c takes the step of its handler that starts at pc.
Leaves(c, pc) == rp[c].pc = pc /\ rp'[c] # rp[c]

HasReadyEntry(rs, code, playerID) ==
    code \in DOMAIN rs /\ playerID \in DOMAIN rs[code]

\* p is a member of the lobby registered under code, in the next state.
MemberAfter(code, p) ==
    /\ lobbies'[code] # NoLobby
    /\ HasPlayer(lobby'[lobbies'[code]], p)

\* The ACTIVE connections of the lobby's set: whom a broadcast reaches.
ActiveIn(code) ==
    {t \in GetLobbyConnections(code) : conn[t].state = ConnectionStateActive}

\* C24: leave_game on an ACTIVE connection of player p in lobby C clears
\* the ready entry of (C, p), takes p out of C and deletes C if p was its
\* last player, broadcasts player_left exactly if C is still registered,
\* and hands the connection to the hub for unregistering; when the handler
\* returns, the tracker has no entry for (C, p) and p is not a member of C.
C24_LeaveGame ==
    [][ \A c \in Clients :
          /\ ( /\ Handles(c)
               /\ rp[c].env.version = ProtocolVersion
               /\ rp[c].env.type = TypeLeaveGame
               /\ conn[c].state = ConnectionStateActive )
             => /\ ~HasReadyEntry(readyState', conn[c].lobbyCode, conn[c].playerID)
                /\ rp'[c].pc = "leave_lobby"
          /\ Leaves(c, "leave_lobby")
             => /\ ~MemberAfter(rp[c].lobbyCode, rp[c].playerID)
                /\ lobbies'[rp[c].lobbyCode] # NoLobby
                      => PlayerCount(lobby'[lobbies'[rp[c].lobbyCode]]) > 0
                /\ rp'[c].pc = "leave_broadcast"
          /\ Leaves(c, "leave_broadcast")
             => /\ IF GetLobby(rp[c].lobbyCode) # NoLobby
                   THEN inbox' = Enqueue(ActiveIn(rp[c].lobbyCode),
                                         LobbyUpdatedMsg(lobby[GetLobby(rp[c].lobbyCode)],
                                                         LobbyEventPlayerLeft))
                   ELSE inbox' = inbox
                /\ rp'[c].pc = "leave_unregister"
          /\ Leaves(c, "leave_unregister")
             => /\ hubpc'.pc = "unregister" /\ hubpc'.conn = c
                /\ rp'[c].pc = "read"
                /\ ~HasReadyEntry(readyState', rp[c].lobbyCode, rp[c].playerID)
                /\ ~MemberAfter(rp[c].lobbyCode, rp[c].playerID)
      ]_vars


\* When the reconnect token of connection e was issued: Connection.Authenticate
\* sets the token and sessionExpiry = time.Now() + sessionDuration together.
IssuedAt(e) == conn[e].sessionExpiry - sessionDuration

\* handleAuthenticate on c accepts the presented token and goes on to
\* unregister the connection the player holds.
Evicts(c) == rp[c].pc = "auth_existing" /\ rp'[c].pc = "auth_unregister"

\* C28: a reconnect token is accepted for evicting the prior connection
\* only within reconnectTokenDuration (5 minutes) of its issuance.
C28_TokenLifetime ==
    [][ \A c \in Clients :
          Evicts(c) => now < IssuedAt(rp'[c].existing) + reconnectTokenDuration
      ]_vars


\* The hub's goroutine is inside the disconnect callback.
InCallback == hubpc.pc \in {"callback", "callback_lobby", "callback_broadcast"}

\* C27: the hub holds no hub lock while the disconnect callback runs, and
\* a callback that is invoked returns: the hub closes the connection and is
\* back in its select, ready for the next register or unregister request.
C27_CallbackReturns ==
    /\ [](InCallback => ~hubpc.mu)
    /\ (hubpc.pc = "callback") ~> (hubpc.pc = "select")


\* The symbols of the alphabet, and the ambiguous characters.
Alphabet == {roomCodeCharset[k] : k \in 1..Len(roomCodeCharset)}
Ambiguous == {"0", "O", "1", "I", "L"}

C32_NoSendOnClosedChannel ==
    \A c \in Conns : ~rp[c].panicked


\* The number of messages of type t that connection c has been sent.
CountType(c, t) == Cardinality({i \in 1..Len(inbox[c]) : inbox[c][i].type = t})

\* C33: when the players of a full lobby send set_ready{ready: true}
\* concurrently, the start sequence is emitted once: no connection is sent
\* more than one game_starting or more than one game_started.
C33_StartSequenceOnce ==
    \A c \in Conns :
        /\ CountType(c, TypeGameStarting) <= 1
        /\ CountType(c, TypeGameStarted) <= 1


\* The JoinLobby call of caller c returns success in this step.
JoinReturnsOK(c) ==
    /\ call[c].pc = "join_add"
    /\ call'[c].pc = "done"
    /\ call'[c].err = NoErr

\* The player of c's join has made no other call: three calls were made, the
\* CreateLobby of another player (the host), this join, and one more.
FirstCallOfPlayer(c) ==
    /\ ncalls = 3
    /\ lobby[call[c].ref].HostID # call[c].player

\* C34: when JoinLobby(code, p) returns success, whatever LeaveLobby calls
\* of other players it was interleaved with, the lobby that GetLobby(code)
\* returns exists and has p among its players.  Stated for the joins of a
\* player who has made no other call, so that every leave is another
\* player's.
C34_JoinedPlayerIsMember ==
    [][ \A c \in Callers :
            JoinReturnsOK(c) /\ FirstCallOfPlayer(c)
            => /\ lobbies'[call'[c].code] # NoLobby
               /\ HasPlayer(lobby'[lobbies'[call'[c].code]], call'[c].player)
      ]_vars

\* This step runs close(c.send) for connection c.
ClosesSend(c) ==
    /\ hubpc.pc = "close_send"
    /\ hubpc.conn = c
    /\ hubpc'.pc # "close_send"

\* C35: a connection's state only moves forward, from PENDING to ACTIVE to
\* CLOSING: an ACTIVE connection is never PENDING again, a CLOSING
\* connection stays CLOSING, and close(c.send) runs at most once.
C35_StateMovesForward ==
    [][ \A c \in Conns :
            /\ conn[c].state = ConnectionStateClosing
               => conn'[c].state = ConnectionStateClosing
            /\ conn[c].state = ConnectionStateActive
               => conn'[c].state # ConnectionStatePending
            /\ ClosesSend(c) => ~conn[c].sendClosed
      ]_vars


\* The hub handles, in this step, an unregister request for connection c.
HandlesUnregister(c) ==
    /\ hubpc.pc = "unregister"
    /\ hubpc.conn = c
    /\ hubpc'.pc # "unregister"

C37_ErrorLeavesLobbyUnchanged ==
    [][ (LastCall.op \in {"add_player", "remove_player", "start"} /\ LastCall.err # NoErr)
        => /\ After.Players = Before.Players
           /\ After.HostID = Before.HostID
           /\ After.State = Before.State
      ]_vars

\* The full lobby has been started, and the last call, the join of a player
\* who is not in it, was rejected.
C37_Witness ==
    /\ lobby[TheLobby].State = LobbyStateActive
    /\ Len(lobby[TheLobby].Players) = MaxPlayers
    /\ call[1].op = "add_player"
    /\ call[1].err # NoErr
    /\ ~HasPlayer(lobby[TheLobby], call[1].player)


\* The set_ready handler of connection c answers LOBBY_NOT_FOUND in this step.
AnswersLobbyNotFound(c) ==
    /\ rp[c].pc = "ready_broadcast"
    /\ Sent(c)
    /\ LastSent(c).type = TypeError
    /\ LastSent(c).event = ErrCodeLobbyNotFound

\* C38: a set_ready that is answered with an error leaves the ready tracker
\* as it was.  Stated for the first frame that any connection has sent: the
\* tracker was empty before it, so it is empty when LOBBY_NOT_FOUND is sent.
C38_ErrorLeavesTrackerUnchanged ==
    [][ \A c \in Conns :
            (AnswersLobbyNotFound(c) /\ nmsgs = 1) => readyState' = EmptyMap
      ]_vars


\* Connection c's goroutine is inside Hub.Register or Hub.Unregister.
InHubRequest(c) == rp[c].pc \in {"register", "unregister"}

\* C39: every Register and Unregister request to the hub eventually returns
\* to its caller, also when the hub has been stopped.
C39_HubRequestsReturn ==
    \A c \in Conns : InHubRequest(c) ~> ~InHubRequest(c)


\* C40: on a lobby that NewLobby made and only AddPlayer, RemovePlayer and
\* Start have changed, AddPlayer never returns ErrLobbyFull and Start never
\* returns ErrNotEnoughPlayers: the state test that comes first in each
\* rejects every lobby in which the second test would fail.
C40_FullAndNotEnoughUnreachable ==
    /\ call[1].op = "add_player" => call[1].err # ErrLobbyFull
    /\ call[1].op = "start" => call[1].err # ErrNotEnoughPlayers
    /\ lobby[TheLobby].State = LobbyStateWaiting
       => Len(lobby[TheLobby].Players) < MaxPlayers
    /\ lobby[TheLobby].State = LobbyStateReady
       => Len(lobby[TheLobby].Players) = MaxPlayers

\* Start was called on an ACTIVE lobby that its players have left since,
\* and returned ErrInvalidStateForStart.
C40_Witness ==
    /\ call[1].op = "start"
    /\ call[1].err = ErrInvalidStateForStart
    /\ lobby[TheLobby].State = LobbyStateActive
    /\ Len(lobby[TheLobby].Players) < MaxPlayers

=============================================================================
